---------------------------- MODULE Spec2Model ----------------------------
(***************************************************************************)
(* A model of csharp_binder's lowering engine (src/src/builder.rs): the    *)
(* type resolver, the declaration lowerers and the shared registry of      *)
(* known types, driven through the builder's public operations             *)
(* (new, set_namespace, set_type, build).                                  *)
(*                                                                         *)
(* Conventions.                                                            *)
(*   Option<T>      None is <<>>, Some(x) is <<x>>.                        *)
(*   Result<T, E>   [tag |-> "Ok", val |-> v] or [tag |-> "Err", err |-> e]*)
(*                  or [tag |-> "Panic"] when the thread panics.           *)
(*   String (text)  the generated script is the sequence of its lines;     *)
(*                  a line is [indent |-> n, text |-> s] and stands for    *)
(*                  4*n spaces, s and a newline (write_line).              *)
(*   Identifiers    that pass through convert_naming are sequences of      *)
(*                  one-character strings; all others are strings.         *)
(*   Attributes     are given as the Meta value attr.parse_meta() yields;  *)
(*                  trees whose attributes do not parse as a Meta are      *)
(*                  outside the model (the parser is an upstream concern). *)
(***************************************************************************)
EXTENDS Integers, Sequences, FiniteSets, TLC

VARIABLES
    known_types,     \* configuration.known_types: native name -> CSharpType
    csharp_version,  \* configuration.csharp_version
    out_type,        \* configuration.out_type: Option<String>
    tokens,          \* builder.tokens.items
    namespace,       \* builder.namespace: Option<String>
    type_name,       \* builder.type_name: Option<String>
    pc,              \* "idle" | "ready" | "building" | "done" | "panicked"
    script,          \* build_csharp: the local `script`
    indent,          \* build_csharp: the local `indent`
    idx,             \* build_csharp: position of the loop over tokens.items
    result,          \* Option<Result<String, Error>>: what the last build returned
    begin_known_types \* history: known_types as the current build found it

vars == <<known_types, csharp_version, out_type, tokens, namespace, type_name,
          pc, script, indent, idx, result, begin_known_types>>

----------------------------------------------------------------------------
(* Option and Result *)

\* the C# version from which init-only properties and nint/nuint exist
CSharp9 == 9

None == <<>>
Some(x) == <<x>>
is_none(o) == o = <<>>
is_some(o) == o # <<>>
unwrap(o) == o[1]

Ok(v) == [tag |-> "Ok", val |-> v]
Err(e) == [tag |-> "Err", err |-> e]
Panic == [tag |-> "Panic"]
is_ok(r) == r.tag = "Ok"
is_err(r) == r.tag = "Err"

\* the `?` operator: r? followed by Then(value); an Err or a panic goes up as it is
Try(r, Then(_)) == IF ~is_ok(r) THEN r ELSE Then(r.val)

UnsupportedError(msg) == [kind |-> "UnsupportedError", msg |-> msg]
UnknownType(msg) == [kind |-> "UnknownType", msg |-> msg]

----------------------------------------------------------------------------
(* Characters and strings *)

LowerAlpha == <<"a","b","c","d","e","f","g","h","i","j","k","l","m",
                "n","o","p","q","r","s","t","u","v","w","x","y","z">>
UpperAlpha == <<"A","B","C","D","E","F","G","H","I","J","K","L","M",
                "N","O","P","Q","R","S","T","U","V","W","X","Y","Z">>

make_ascii_uppercase(c) ==
    IF \E i \in 1..26 : LowerAlpha[i] = c
    THEN UpperAlpha[CHOOSE i \in 1..26 : LowerAlpha[i] = c]
    ELSE c

make_ascii_lowercase(c) ==
    IF \E i \in 1..26 : UpperAlpha[i] = c
    THEN LowerAlpha[CHOOSE i \in 1..26 : UpperAlpha[i] = c]
    ELSE c

\* ident.to_string() of an identifier kept as a sequence of characters
RECURSIVE to_string(_)
to_string(cs) == IF cs = <<>> THEN "" ELSE Head(cs) \o to_string(Tail(cs))

\* str::split('_'): the words between separators, empty words included
RECURSIVE split(_, _)
split(cs, cur) ==
    IF cs = <<>> THEN <<cur>>
    ELSE IF Head(cs) = "_" THEN <<cur>> \o split(Tail(cs), <<>>)
    ELSE split(Tail(cs), Append(cur, Head(cs)))

RECURSIVE join(_)
join(ws) == IF ws = <<>> THEN <<>> ELSE Head(ws) \o join(Tail(ws))

first_upper(w) == IF w = <<>> THEN w ELSE <<make_ascii_uppercase(w[1])>> \o Tail(w)
first_lower(w) == IF w = <<>> THEN w ELSE <<make_ascii_lowercase(w[1])>> \o Tail(w)

\* convert_naming, were the name of a parameter left with its capital
convert_naming_capitalised(input, is_parameter) ==
    join([i \in 1..Len(split(input, <<>>)) |-> first_upper(split(input, <<>>)[i])])

convert_naming(input, is_parameter) ==
    LET words == split(input, <<>>)
        f == join([i \in 1..Len(words) |-> first_upper(words[i])])
    IN  IF is_parameter THEN first_lower(f) ELSE f

----------------------------------------------------------------------------
(* The syntax tree: types *)

PathArgumentsNone == [pa |-> "None"]
AngleBracketed(args) == [pa |-> "AngleBracketed", args |-> args]
GenericType(ty) == [ga |-> "Type", ty |-> ty]
GenericLifetime == [ga |-> "Lifetime"]

Segment(ident, arguments) == [ident |-> ident, arguments |-> arguments]
TypePath(segments) == [t |-> "Path", segments |-> segments]
TypePtr(elem) == [t |-> "Ptr", elem |-> elem]
TypeReference(elem) == [t |-> "Reference", elem |-> elem]
TypeOther(kind) == [t |-> kind]

\* a single-segment path without arguments, e.g. `u8` or `KnownEnum`
Named(ident) == TypePath(<<Segment(ident, PathArgumentsNone)>>)
\* a single-segment path with type arguments, e.g. `TestStruct<u8>`
Generic(ident, tys) ==
    TypePath(<<Segment(ident, AngleBracketed([i \in 1..Len(tys) |-> GenericType(tys[i])]))>>)

\* Path::get_ident: the identifier of a one-segment path without arguments
get_ident(segments) ==
    IF Len(segments) = 1 /\ segments[1].arguments = PathArgumentsNone
    THEN Some(segments[1].ident) ELSE None

----------------------------------------------------------------------------
(* TypeNameContainer *)

TypeNameContainer(csharp_name, rust_name) ==
    [csharp_name |-> csharp_name, rust_name |-> rust_name, generics |-> <<>>]

RECURSIVE stringify(_)
RECURSIVE stringify_list(_, _)
stringify_list(gs, i) ==
    IF i > Len(gs) THEN ""
    ELSE (IF i # 1 THEN ", " ELSE "") \o stringify(gs[i]) \o stringify_list(gs, i + 1)
stringify(c) ==
    IF c.generics = <<>> THEN c.csharp_name
    ELSE c.csharp_name \o "<" \o stringify_list(c.generics, 1) \o ">"

----------------------------------------------------------------------------
(* The type resolver.  b is the builder as the resolver reads it:          *)
(* [namespace, type_name, csharp_version, out_type]; known is              *)
(* configuration.known_types; borrowed says that the caller still holds    *)
(* configuration.borrow_mut(), in which case every configuration.borrow()  *)
(* panics (RefCell).                                                       *)

CSharpType(ns, inside, real) ==
    [namespace |-> ns, inside_type |-> inside, real_type_name |-> real]

\* CSharpConfiguration::get_known_type
get_known_type(known, name) ==
    IF name \in DOMAIN known THEN Some(known[name]) ELSE None

\* CSharpConfiguration::add_known_type: insert or overwrite the entry of name
add_known_type(known, name, ns, inside, real) ==
    [n \in DOMAIN known \cup {name} |->
        IF n = name THEN CSharpType(ns, inside, real) ELSE known[n]]

\* CSharpBuilder::add_known_type: register under the builder's own context
builder_add_known_type(b, known, rust_name, csharp_name) ==
    add_known_type(known, rust_name, b.namespace, b.type_name, csharp_name)

\* resolve_known_type_name, were an unregistered name passed on as it is
resolve_known_type_name_passing_unknown(b, known, v, borrowed) ==
    IF borrowed THEN Panic
    ELSE IF is_none(get_known_type(known, v)) THEN Ok(TypeNameContainer(v, v))
    ELSE Ok(TypeNameContainer(unwrap(get_known_type(known, v)).real_type_name, v))

\* resolve_known_type_name, were the enclosing type compared before the namespace
resolve_known_type_name_enclosing_first(b, known, v, borrowed) ==
    IF borrowed THEN Panic
    ELSE LET o == get_known_type(known, v) IN
    IF is_none(o)
    THEN Err(UnknownType("Type with name '" \o v \o "' was not found"))
    ELSE LET t == unwrap(o) IN
         IF b.type_name = t.inside_type \/ is_none(t.inside_type)
         THEN IF b.namespace = t.namespace \/ is_none(t.namespace)
              THEN Ok(TypeNameContainer(t.real_type_name, v))
              ELSE Ok(TypeNameContainer(unwrap(t.namespace) \o "." \o t.real_type_name, v))
         ELSE IF b.namespace = t.namespace \/ is_none(t.namespace)
         THEN Ok(TypeNameContainer(unwrap(t.inside_type) \o "." \o t.real_type_name, v))
         ELSE Ok(TypeNameContainer(
                  unwrap(t.namespace) \o "." \o unwrap(t.inside_type)
                      \o "." \o t.real_type_name, v))

\* resolve_known_type_name, were a type always written with all its segments
resolve_known_type_name_in_full(b, known, v, borrowed) ==
    IF borrowed THEN Panic
    ELSE LET o == get_known_type(known, v) IN
    IF is_none(o)
    THEN Err(UnknownType("Type with name '" \o v \o "' was not found"))
    ELSE Ok(TypeNameContainer(
                (IF is_none(unwrap(o).namespace) THEN ""
                 ELSE unwrap(unwrap(o).namespace) \o ".")
                \o (IF is_none(unwrap(o).inside_type) THEN ""
                    ELSE unwrap(unwrap(o).inside_type) \o ".")
                \o unwrap(o).real_type_name, v))

resolve_known_type_name(b, known, v, borrowed) ==
    IF borrowed THEN Panic
    ELSE LET o == get_known_type(known, v) IN
    IF is_none(o)
    THEN Err(UnknownType("Type with name '" \o v \o "' was not found"))
    ELSE LET t == unwrap(o)
             inside_type == b.type_name
         IN
         IF b.namespace = t.namespace
            /\ (inside_type = t.inside_type \/ is_none(t.inside_type))
         THEN Ok(TypeNameContainer(t.real_type_name, v))
         ELSE IF b.namespace = t.namespace
         THEN Ok(TypeNameContainer(unwrap(t.inside_type) \o "." \o t.real_type_name, v))
         ELSE IF is_none(t.inside_type)
         THEN IF is_none(t.namespace)
              THEN Ok(TypeNameContainer(t.real_type_name, v))
              ELSE Ok(TypeNameContainer(unwrap(t.namespace) \o "." \o t.real_type_name, v))
         ELSE IF is_none(t.namespace)
         THEN Ok(TypeNameContainer(unwrap(t.inside_type) \o "." \o t.real_type_name, v))
         ELSE Ok(TypeNameContainer(
                  unwrap(t.namespace) \o "." \o unwrap(t.inside_type)
                      \o "." \o t.real_type_name, v))

\* the version test, were version 9 itself below it
csharp_version_above_9(b) == b.csharp_version > CSharp9

\* configuration.csharp_version >= 9
csharp_version_at_least_9(b) == b.csharp_version >= CSharp9

RECURSIVE convert_type_name(_, _, _, _)
RECURSIVE convert_type_path(_, _, _, _)
RECURSIVE extract_out_parameter_type(_, _, _, _)
RECURSIVE push_generics(_, _, _, _, _, _)

\* convert_type_path, lines 763-769: push the converted type arguments onto base
push_generics(base, args, i, b, known, borrowed) ==
    IF i > Len(args) THEN Ok(base)
    ELSE IF args[i].ga # "Type"
    THEN push_generics(base, args, i + 1, b, known, borrowed)
    ELSE Try(convert_type_name(args[i].ty, b, known, borrowed),
             LAMBDA g : push_generics([base EXCEPT !.generics = Append(@, g)],
                                      args, i + 1, b, known, borrowed))

extract_out_parameter_type(v, b, known, borrowed) ==
    LET bad == Err(UnsupportedError(
                   "Out type requires the real type to be angle bracketed."))
    IN
    IF v.arguments.pa # "AngleBracketed" THEN bad
    ELSE LET a == v.arguments.args IN
         IF a = <<>> THEN bad
         ELSE IF a[Len(a)].ga # "Type" THEN bad
         ELSE Try(convert_type_name(a[Len(a)].ty, b, known, borrowed),
                  LAMBDA inner_type :
                      Ok(TypeNameContainer("out " \o stringify(inner_type), v.ident)))

Primitive(csharp_name, rust_name) == Ok(TypeNameContainer(csharp_name, rust_name))

convert_type_path(segments, b, known, borrowed) ==
    IF segments = <<>>
    THEN Err(UnsupportedError("Types without a path are not supported"))
    ELSE LET v == segments[Len(segments)]
             id == v.ident
         IN
         CASE id = "u8" -> Primitive("byte", "u8")
           [] id = "u16" -> Primitive("ushort", "u16")
           [] id = "u32" -> Primitive("uint", "u32")
           [] id = "u64" -> Primitive("ulong", "u64")
           [] id = "u128" -> Primitive("System.Numerics.BigInteger", "u128")
           [] id = "usize" ->
                IF borrowed THEN Panic
                ELSE IF csharp_version_at_least_9(b) THEN Primitive("nuint", "usize")
                ELSE Primitive("ulong", "usize")
           [] id = "i8" -> Primitive("sbyte", "i8")
           [] id = "i16" -> Primitive("short", "i16")
           [] id = "i32" -> Primitive("int", "i32")
           [] id = "i64" -> Primitive("long", "i64")
           [] id = "i128" -> Primitive("System.Numerics.BigInteger", "i128")
           [] id = "isize" ->
                IF borrowed THEN Panic
                ELSE IF csharp_version_at_least_9(b) THEN Primitive("nint", "isize")
                ELSE Primitive("long", "isize")
           [] id = "f32" -> Primitive("float", "f32")
           [] id = "f64" -> Primitive("double", "f64")
           [] id = "char" -> Primitive("char", "char")
           [] id = "c_char" -> Primitive("char", "c_char")
           [] id = "bool" -> Err(UnsupportedError("Found a boolean type. Due to differing sizes on different operating systems this is not supported for extern C functions."))
           [] id = "str" -> Err(UnsupportedError("Found a str type. This is not supported, please use a char pointer instead."))
           [] OTHER ->
                IF borrowed THEN Panic
                ELSE IF is_some(b.out_type) /\ id = unwrap(b.out_type)
                THEN extract_out_parameter_type(v, b, known, borrowed)
                ELSE Try(resolve_known_type_name(b, known, id, borrowed),
                         LAMBDA base :
                             IF v.arguments.pa = "AngleBracketed"
                             THEN push_generics(base, v.arguments.args, 1, b, known,
                                                borrowed)
                             ELSE Ok(base))

Unsupported(what) ==
    Err(UnsupportedError("Using " \o what \o " from ffi is not supported."))

\* convert_type_name, were the pointee of a pointer not resolved
convert_type_name_unresolved_pointee(t, b, known, borrowed) ==
    CASE t.t = "Path" -> convert_type_path(t.segments, b, known, borrowed)
      [] t.t = "Ptr" -> Ok(TypeNameContainer("IntPtr", "*"))
      [] t.t = "Reference" ->
            Try(convert_type_name(t.elem, b, known, borrowed),
                LAMBDA underlying :
                    Ok(TypeNameContainer("ref " \o stringify(underlying),
                                         underlying.rust_name \o "&")))
      [] OTHER -> Unsupported("this type")

convert_type_name(t, b, known, borrowed) ==
    CASE t.t = "Path" -> convert_type_path(t.segments, b, known, borrowed)
      [] t.t = "Ptr" ->
            Try(convert_type_name(t.elem, b, known, borrowed),
                LAMBDA underlying :
                    Ok(TypeNameContainer("IntPtr", underlying.rust_name \o "*")))
      [] t.t = "Reference" ->
            Try(convert_type_name(t.elem, b, known, borrowed),
                LAMBDA underlying :
                    Ok(TypeNameContainer("ref " \o stringify(underlying),
                                         underlying.rust_name \o "&")))
      [] t.t = "Array" -> Unsupported("rust arrays")
      [] t.t = "BareFn" -> Unsupported("bare functions")
      [] t.t = "Group" -> Unsupported("type group")
      [] t.t = "ImplTrait" -> Unsupported("rust impl traits")
      [] t.t = "Infer" -> Err(UnsupportedError("Using type infers is not supported. We can't generate a binding if we do not know the type."))
      [] t.t = "Macro" -> Unsupported("rust macros")
      [] t.t = "Never" -> Unsupported("rust never type")
      [] t.t = "Paren" -> Unsupported("rust parenthesis")
      [] t.t = "Slice" -> Unsupported("rust slices")
      [] t.t = "TraitObject" -> Unsupported("rust traits")
      [] t.t = "Tuple" -> Unsupported("rust tuples")
      [] t.t = "Verbatim" -> Unsupported("rust verbatim")

----------------------------------------------------------------------------
(* The syntax tree: attributes and declarations *)

MetaPath(segments) == [meta |-> "Path", segments |-> segments]
MetaList(ident, nested) == [meta |-> "List", ident |-> ident, nested |-> nested]
MetaNameValue(ident, lit) == [meta |-> "NameValue", ident |-> ident, lit |-> lit]
NestedMeta(m) == [nm |-> "Meta", m |-> m]
NestedLit == [nm |-> "Lit"]
LitStr(value) == [lit |-> "Str", value |-> value]
LitInt(digits) == [lit |-> "Int", digits |-> digits]

\* #[repr(x)] and #[repr(x, y)]
Repr(x) == MetaList(Some("repr"),
                    <<NestedMeta(MetaPath(<<Segment(x, PathArgumentsNone)>>))>>)
Repr2(x, y) == MetaList(Some("repr"),
                    <<NestedMeta(MetaPath(<<Segment(x, PathArgumentsNone)>>)),
                      NestedMeta(MetaPath(<<Segment(y, PathArgumentsNone)>>))>>)
\* `/// text`, the text given as its characters
Doc(chars) == MetaNameValue(Some("doc"), LitStr(chars))

ItemEnum(attrs, ident, variants) ==
    [item |-> "Enum", attrs |-> attrs, ident |-> ident, variants |-> variants]
Variant(ident, fields, discriminant) ==
    [attrs |-> <<>>, ident |-> ident, fields |-> fields, discriminant |-> discriminant]
ExprLit(lit) == [e |-> "Lit", lit |-> lit]
ExprOther == [e |-> "Other"]
\* `-literal`: a unary minus applied to a literal
ExprNeg(lit) == [e |-> "Unary", op |-> "-", expr |-> ExprLit(lit)]

ItemFn(attrs, abi, ident, inputs, output) ==
    [item |-> "Fn", attrs |-> attrs, abi |-> abi, ident |-> ident,
     inputs |-> inputs, output |-> output]
Receiver == [arg |-> "Receiver"]
Typed(pat, ty) == [arg |-> "Typed", pat |-> pat, ty |-> ty]
PatIdent(ident) == [p |-> "Ident", ident |-> ident]
PatWild == [p |-> "Wild"]
\* fun.sig.abi: no `extern`, `extern` alone, `extern "name"`
AbiNone == None
AbiUnnamed == Some(None)
Abi(name) == Some(Some(name))

ItemStruct(attrs, ident, params, fields) ==
    [item |-> "Struct", attrs |-> attrs, ident |-> ident, params |-> params,
     fields |-> fields]
TypeParam(ident) == [gp |-> "Type", ident |-> ident]
LifetimeParam == [gp |-> "Lifetime"]
Field(attrs, ident, ty) == [attrs |-> attrs, ident |-> ident, ty |-> ty]

ItemType(ident, ty) == [item |-> "Type", ident |-> ident, ty |-> ty]
ItemMod(content) == [item |-> "Mod", content |-> content]
ItemOther(kind) == [item |-> kind]

----------------------------------------------------------------------------
(* The emission writer and the documentation extractor *)

write_line(str, content, indents) ==
    Append(str, [indent |-> IF indents < 0 THEN 0 ELSE indents, text |-> content])

\* writeln!(str): an empty line
writeln(str) == Append(str, [indent |-> 0, text |-> ""])

\* str::trim on a text given as its characters
RECURSIVE trim_start(_)
trim_start(cs) == IF cs # <<>> /\ Head(cs) = " " THEN trim_start(Tail(cs)) ELSE cs
RECURSIVE trim_end(_)
trim_end(cs) ==
    IF cs # <<>> /\ cs[Len(cs)] = " " THEN trim_end(SubSeq(cs, 1, Len(cs) - 1)) ELSE cs
trim(cs) == trim_end(trim_start(cs))

RECURSIVE extract_outer_docs(_)
extract_outer_docs(attrs) ==
    IF attrs = <<>> THEN <<>>
    ELSE LET a == Head(attrs)
             rest == extract_outer_docs(Tail(attrs))
         IN  IF a.meta = "NameValue" /\ a.ident = Some("doc") /\ a.lit.lit = "Str"
             THEN <<a.lit.value>> \o rest
             ELSE rest

RECURSIVE write_doc_lines(_, _, _)
write_doc_lines(str, docs, indents) ==
    IF docs = <<>> THEN str
    ELSE write_doc_lines(
             write_line(str, "/// " \o to_string(trim(Head(docs))), indents),
             Tail(docs), indents)

write_summary_from_outer_docs(str, outer_docs, indents) ==
    IF outer_docs # <<>>
    THEN write_line(
             write_doc_lines(write_line(str, "/// <summary>", indents),
                             outer_docs, indents),
             "/// </summary>", indents)
    ELSE str

\* Option<syn::Path>: the first value of a #[repr(...)] attribute, if a path
get_repr_attribute_value(attr) ==
    IF attr.meta # "List" THEN None
    ELSE IF attr.ident # Some("repr") THEN None
    ELSE IF attr.nested = <<>> THEN None
    ELSE LET value == attr.nested[1] IN
         IF value.nm = "Meta" /\ value.m.meta = "Path"
         THEN Some(value.m.segments)
         ELSE None

\* is_extern_c, were every named ABI taken for the C ABI
is_extern_c_named(func) ==
    IF is_none(func.abi) THEN FALSE ELSE is_some(unwrap(func.abi))

is_extern_c(func) ==
    IF is_none(func.abi) THEN FALSE
    ELSE IF is_none(unwrap(func.abi)) THEN FALSE
    ELSE unwrap(unwrap(func.abi)) = "C"

\* get_path_name, were the name of a path of several segments none
get_path_name_of_single(segments) ==
    IF Len(segments) # 1 THEN None ELSE Some(segments[1].ident)

get_path_name(segments) ==
    IF segments = <<>> THEN None ELSE Some(segments[Len(segments)].ident)

----------------------------------------------------------------------------
(* The declaration lowerers.  Each takes the text and indentation written  *)
(* so far and the registry, and yields them as the declaration leaves      *)
(* them, with r the Result the function returns.                           *)

OkUnit == Ok(<<>>)
Lowered(str, indents, known, r) ==
    [str |-> str, indents |-> indents, known |-> known, r |-> r]

\* r? inside a lowerer: on Err or panic the lowerer returns with what it wrote
TryLower(r, str, indents, known, Then(_)) ==
    IF ~is_ok(r) THEN Lowered(str, indents, known, r) ELSE Then(r.val)

\* convert_inputs, were a parameter that binds no single identifier left out
RECURSIVE convert_inputs_leaving_out(_, _, _, _, _)
convert_inputs_leaving_out(inputs, i, parameters, b, known) ==
    IF i > Len(inputs) THEN Ok(parameters)
    ELSE IF inputs[i].arg = "Receiver"
    THEN Err(UnsupportedError("Receiver parameters aren't supported"))
    ELSE IF inputs[i].pat.p = "Ident"
    THEN Try(convert_type_name(inputs[i].ty, b, known, FALSE),
             LAMBDA ty_name :
                 convert_inputs_leaving_out(inputs, i + 1,
                     Append(parameters,
                            <<to_string(convert_naming(inputs[i].pat.ident, TRUE)),
                              stringify(ty_name),
                              ty_name.rust_name>>),
                     b, known))
    ELSE convert_inputs_leaving_out(inputs, i + 1, parameters, b, known)

\* write_function, lines 206-232: Vec<(name, managed type, native type)>
RECURSIVE convert_inputs(_, _, _, _, _)
convert_inputs(inputs, i, parameters, b, known) ==
    IF i > Len(inputs) THEN Ok(parameters)
    ELSE IF inputs[i].arg = "Receiver"
    THEN Err(UnsupportedError("Receiver parameters aren't supported"))
    ELSE IF inputs[i].pat.p = "Ident"
    THEN Try(convert_type_name(inputs[i].ty, b, known, FALSE),
             LAMBDA ty_name :
                 convert_inputs(inputs, i + 1,
                     Append(parameters,
                            <<to_string(convert_naming(inputs[i].pat.ident, TRUE)),
                              stringify(ty_name),
                              ty_name.rust_name>>),
                     b, known))
    ELSE Err(UnsupportedError("Parameters that are not identity aren't supported"))

RECURSIVE write_param_docs(_, _, _, _)
write_param_docs(str, parameters, i, indents) ==
    IF i > Len(parameters) THEN str
    ELSE write_param_docs(
             write_line(str,
                        "/// <param name=\"" \o parameters[i][1] \o "\">"
                            \o parameters[i][3] \o "</param>",
                        indents),
             parameters, i + 1, indents)

RECURSIVE parameter_list(_, _)
parameter_list(parameters, i) ==
    IF i > Len(parameters) THEN ""
    ELSE (IF i # 1 THEN ", " ELSE "")
             \o parameters[i][2] \o " " \o parameters[i][1]
             \o parameter_list(parameters, i + 1)

DllName == "foo"

\* write_function, lines 234-281: the text of a function whose types resolved
write_function_text(str, indents, fun, return_type, parameters) ==
    LET s1 == write_summary_from_outer_docs(str, extract_outer_docs(fun.attrs), indents)
        s2 == write_param_docs(s1, parameters, 1, indents)
        s3 == write_line(s2, "/// <returns>" \o return_type.rust_name \o "</returns>",
                         indents)
        s4 == write_line(s3,
                  "[DllImport(\"" \o DllName
                      \o "\", CallingConvention = CallingConvention.Cdecl, EntryPoint=\""
                      \o to_string(fun.ident) \o "\")]",
                  indents)
        s5 == write_line(s4,
                  "internal static extern " \o stringify(return_type) \o " "
                      \o to_string(convert_naming(fun.ident, FALSE)) \o "("
                      \o parameter_list(parameters, 1) \o ");",
                  indents)
    IN  writeln(s5)

write_function(str, indents, b, known, fun) ==
    IF ~is_extern_c(fun) THEN Lowered(str, indents, known, OkUnit)
    ELSE TryLower(
             IF is_none(fun.output) THEN Ok(TypeNameContainer("void", "void"))
             ELSE convert_type_name(unwrap(fun.output), b, known, FALSE),
             str, indents, known,
             LAMBDA return_type :
                 TryLower(convert_inputs(fun.inputs, 1, <<>>, b, known),
                          str, indents, known,
                          LAMBDA parameters :
                              Lowered(write_function_text(str, indents, fun,
                                                          return_type, parameters),
                                      indents, known, OkUnit)))

\* write_enum, lines 290-312: Result<Option<TypeNameContainer>>
RECURSIVE scan_enum_attrs(_, _, _, _, _)
scan_enum_attrs(attrs, i, size_option, b, known) ==
    IF i > Len(attrs) THEN Ok(size_option)
    ELSE IF is_none(get_repr_attribute_value(attrs[i]))
    THEN scan_enum_attrs(attrs, i + 1, size_option, b, known)
    ELSE IF is_none(get_ident(unwrap(get_repr_attribute_value(attrs[i]))))
    THEN scan_enum_attrs(attrs, i + 1, size_option, b, known)
    ELSE IF unwrap(get_ident(unwrap(get_repr_attribute_value(attrs[i])))) = "C"
    THEN Err(UnsupportedError("The size of a repr[C] enum is not specifically defined. Please use repr[u*] to define an actual size"))
    ELSE Try(convert_type_path(unwrap(get_repr_attribute_value(attrs[i])), b, known,
                               FALSE),
             LAMBDA size : scan_enum_attrs(attrs, i + 1, Some(size), b, known))

\* write_enum, lines 348-358: the ` = value` of a variant
discriminant_text(discriminant) ==
    IF is_none(discriminant) THEN ""
    ELSE IF unwrap(discriminant).e # "Lit" THEN ""
    ELSE IF unwrap(discriminant).lit.lit # "Int" THEN ""
    ELSE " = " \o unwrap(discriminant).lit.digits

\* write_variants, were a variant that carries fields passed over
RECURSIVE write_variants_passing_fields(_, _, _, _)
write_variants_passing_fields(str, variants, i, indents) ==
    IF i > Len(variants) THEN [str |-> str, r |-> OkUnit]
    ELSE IF variants[i].fields # <<>>
    THEN write_variants_passing_fields(str, variants, i + 1, indents)
    ELSE write_variants_passing_fields(
             write_line(
                 write_summary_from_outer_docs(
                     str, extract_outer_docs(variants[i].attrs), indents),
                 variants[i].ident \o discriminant_text(variants[i].discriminant) \o ",",
                 indents),
             variants, i + 1, indents)

\* write_enum, lines 332-362: [str, r]
RECURSIVE write_variants(_, _, _, _)
write_variants(str, variants, i, indents) ==
    IF i > Len(variants) THEN [str |-> str, r |-> OkUnit]
    ELSE IF variants[i].fields # <<>>
    THEN [str |-> str,
          r |-> Err(UnsupportedError("Enum with values with fields is not supported"))]
    ELSE write_variants(
             write_line(
                 write_summary_from_outer_docs(
                     str, extract_outer_docs(variants[i].attrs), indents),
                 variants[i].ident \o discriminant_text(variants[i].discriminant) \o ",",
                 indents),
             variants, i + 1, indents)

\* write_enum, lines 318-330: the summary and the header of the enum
write_enum_header(str, indents, en, size) ==
    write_line(
        write_line(
            write_summary_from_outer_docs(str, extract_outer_docs(en.attrs), indents),
            "public enum " \o en.ident \o " : " \o size.csharp_name, indents),
        "{", indents)

\* write_enum_end, were the enum registered without the context of the builder
write_enum_end_without_context(vs, indents, en, b, known) ==
    IF ~is_ok(vs.r) THEN Lowered(vs.str, indents + 1, known, vs.r)
    ELSE Lowered(writeln(write_line(vs.str, "}", indents)), indents,
                 add_known_type(known, en.ident, None, None, en.ident), OkUnit)

\* write_enum, lines 332-368: after the variants
write_enum_end(vs, indents, en, b, known) ==
    IF ~is_ok(vs.r) THEN Lowered(vs.str, indents + 1, known, vs.r)
    ELSE Lowered(writeln(write_line(vs.str, "}", indents)), indents,
                 builder_add_known_type(b, known, en.ident, en.ident), OkUnit)

write_enum(str, indents, en, b, known) ==
    TryLower(scan_enum_attrs(en.attrs, 1, None, b, known), str, indents, known,
             LAMBDA size_option :
                 IF is_none(size_option) THEN Lowered(str, indents, known, OkUnit)
                 ELSE write_enum_end(
                          write_variants(
                              write_enum_header(str, indents, en, unwrap(size_option)),
                              en.variants, 1, indents + 1),
                          indents, en, b, known))

\* find_c_repr, were any representation marker taken for the layout marker
RECURSIVE find_any_repr(_, _)
find_any_repr(attrs, i) ==
    IF i > Len(attrs) THEN FALSE
    ELSE \/ is_some(get_repr_attribute_value(attrs[i]))
         \/ find_any_repr(attrs, i + 1)

\* write_struct, lines 377-391
RECURSIVE find_c_repr(_, _)
find_c_repr(attrs, i) ==
    IF i > Len(attrs) THEN FALSE
    ELSE \/ /\ is_some(get_repr_attribute_value(attrs[i]))
            /\ get_ident(unwrap(get_repr_attribute_value(attrs[i]))) = Some("C")
         \/ find_c_repr(attrs, i + 1)

\* write_struct, lines 410-419: the HashSet of the record's type parameters
type_params(params) ==
    {params[i].ident : i \in {j \in 1..Len(params) : params[j].gp = "Type"}}

\* HashSet::iter: the elements in the order the hasher happens to give,
\* hash_order being some arrangement of all the names
iter(set, hash_order) == SelectSeq(hash_order, LAMBDA g : g \in set)

RECURSIVE comma_list(_, _)
comma_list(names, i) ==
    IF i > Len(names) THEN ""
    ELSE (IF i # 1 THEN ", " ELSE "") \o names[i] \o comma_list(names, i + 1)

first_lower_case(chars) == to_string(first_lower(chars))

\* generic_t, were a type parameter resolved like any other name
generic_t_resolved(field, generics) == None

\* write_struct, lines 441-451: the field's type if it is a type parameter
generic_t(field, generics) ==
    IF field.ty.t # "Path" THEN None
    ELSE IF is_none(get_ident(field.ty.segments)) THEN None
    ELSE IF unwrap(get_ident(field.ty.segments)) \in generics
    THEN get_ident(field.ty.segments)
    ELSE None

\* write_struct, lines 453-456
field_type(field, generics, b, known) ==
    IF is_none(generic_t(field, generics))
    THEN convert_type_name(field.ty, b, known, FALSE)
    ELSE Ok(TypeNameContainer(unwrap(generic_t(field, generics)),
                              unwrap(generic_t(field, generics))))

\* write_struct, lines 457-464: the summary and the remark of a field
write_field_docs(str, field, t, indents) ==
    write_line(
        write_summary_from_outer_docs(str, extract_outer_docs(field.attrs), indents),
        "/// <remarks>" \o t.rust_name \o "</remarks>", indents)

\* write_field_line, were a field a property under every version
write_field_line_as_property(str, csharp_field_name, t, indents, b) ==
    write_line(str, "public " \o stringify(t) \o " " \o csharp_field_name
                        \o " { get; init; }", indents)

\* write_struct, lines 473-489: the field itself
write_field_line(str, csharp_field_name, t, indents, b) ==
    IF csharp_version_at_least_9(b)
    THEN write_line(str, "public " \o stringify(t) \o " " \o csharp_field_name
                             \o " { get; init; }", indents)
    ELSE write_line(str, "public readonly " \o stringify(t) \o " "
                             \o csharp_field_name \o ";", indents)

\* write_struct, lines 440-493: [str, converted_fields, r]
RECURSIVE write_fields(_, _, _, _, _, _, _, _)
write_fields(str, fields, i, converted_fields, generics, indents, b, known) ==
    IF i > Len(fields)
    THEN [str |-> str, converted_fields |-> converted_fields, r |-> OkUnit]
    ELSE IF ~is_ok(field_type(fields[i], generics, b, known))
    THEN [str |-> str, converted_fields |-> converted_fields,
          r |-> field_type(fields[i], generics, b, known)]
    ELSE IF is_none(fields[i].ident)
    THEN write_fields(
             write_field_docs(str, fields[i],
                              field_type(fields[i], generics, b, known).val, indents),
             fields, i + 1, converted_fields, generics, indents, b, known)
    ELSE write_fields(
             write_field_line(
                 write_field_docs(str, fields[i],
                                  field_type(fields[i], generics, b, known).val, indents),
                 to_string(convert_naming(unwrap(fields[i].ident), FALSE)),
                 field_type(fields[i], generics, b, known).val, indents, b),
             fields, i + 1,
             Append(converted_fields,
                    <<stringify(field_type(fields[i], generics, b, known).val),
                      convert_naming(unwrap(fields[i].ident), FALSE)>>),
             generics, indents, b, known)

RECURSIVE constructor_parameters(_, _)
constructor_parameters(converted_fields, i) ==
    IF i > Len(converted_fields) THEN ""
    ELSE (IF i # 1 THEN ", " ELSE "")
             \o converted_fields[i][1] \o " "
             \o first_lower_case(converted_fields[i][2])
             \o constructor_parameters(converted_fields, i + 1)

RECURSIVE write_assignments(_, _, _, _)
write_assignments(str, converted_fields, i, indents) ==
    IF i > Len(converted_fields) THEN str
    ELSE write_assignments(
             write_line(str,
                        to_string(converted_fields[i][2]) \o " = "
                            \o first_lower_case(converted_fields[i][2]) \o ";",
                        indents),
             converted_fields, i + 1, indents)

\* write_struct, lines 396-437: the summary, the layout and the header
write_struct_header(str, indents, strct, hash_order) ==
    write_line(
        write_line(
            write_line(
                write_summary_from_outer_docs(str, extract_outer_docs(strct.attrs),
                                              indents),
                "[StructLayout(LayoutKind.Sequential, CharSet = CharSet.Unicode)]",
                indents),
            "public struct " \o strct.ident
                \o (IF type_params(strct.params) # {}
                    THEN "<" \o comma_list(iter(type_params(strct.params), hash_order), 1)
                             \o ">"
                    ELSE ""),
            indents),
        "{", indents)

\* write_struct, lines 495-534: the constructor and the closing brace
write_constructor(str, indents, strct, converted_fields) ==
    LET s5 == writeln(str)
        s6 == write_line(s5,
                  "public " \o strct.ident \o "("
                      \o constructor_parameters(converted_fields, 1) \o ")",
                  indents + 1)
        s7 == write_line(s6, "{", indents + 1)
        s8 == write_assignments(s7, converted_fields, 1, indents + 2)
        s9 == write_line(s8, "}", indents + 1)
    IN  writeln(write_line(s9, "}", indents))

\* write_struct, lines 440-540: after the fields
write_struct_end(fs, indents, strct, b, known) ==
    IF ~is_ok(fs.r) THEN Lowered(fs.str, indents + 1, known, fs.r)
    ELSE Lowered(write_constructor(fs.str, indents, strct, fs.converted_fields),
                 indents,
                 builder_add_known_type(b, known, strct.ident, strct.ident), OkUnit)

\* write_struct, were the record registered before its fields are resolved
write_struct_registering_first(str, indents, strct, b, known, hash_order) ==
    IF ~find_c_repr(strct.attrs, 1) THEN Lowered(str, indents, known, OkUnit)
    ELSE write_struct_end(
             write_fields(write_struct_header(str, indents, strct, hash_order),
                          strct.fields, 1, <<>>, type_params(strct.params),
                          indents + 1, b,
                          builder_add_known_type(b, known, strct.ident, strct.ident)),
             indents, strct, b,
             builder_add_known_type(b, known, strct.ident, strct.ident))

write_struct(str, indents, strct, b, known, hash_order) ==
    IF ~find_c_repr(strct.attrs, 1) THEN Lowered(str, indents, known, OkUnit)
    ELSE write_struct_end(
             write_fields(write_struct_header(str, indents, strct, hash_order),
                          strct.fields, 1, <<>>, type_params(strct.params),
                          indents + 1, b, known),
             indents, strct, b, known)

\* write_token, lines 151-168: Result<String>, the aliased name with its
\* bracketed arguments; configuration is mutably borrowed meanwhile
RECURSIVE alias_arguments(_, _, _, _, _)
alias_arguments(real_type_name, args, i, b, known) ==
    IF i > Len(args) THEN Ok(real_type_name \o ">")
    ELSE IF args[i].ga # "Type"
    THEN alias_arguments(real_type_name, args, i + 1, b, known)
    ELSE Try(convert_type_name(args[i].ty, b, known, TRUE),
             LAMBDA g :
                 alias_arguments(
                     real_type_name \o (IF i # 1 THEN ", " ELSE "") \o g.csharp_name,
                     args, i + 1, b, known))

\* write_token, lines 149-168: Result<String>, the name the alias registers
alias_real_type_name(inner_type, last, b, known) ==
    IF last.arguments.pa = "AngleBracketed"
    THEN alias_arguments(inner_type.real_type_name \o "<", last.arguments.args, 1,
                         b, known)
    ELSE Ok(inner_type.real_type_name)

\* write_alias, were the namespace of an entry the alias replaces kept
write_alias_keeping_namespace(str, indents, typedef, inner_type, b, known) ==
    TryLower(alias_real_type_name(inner_type,
                                  typedef.ty.segments[Len(typedef.ty.segments)],
                                  b, known),
             str, indents, known,
             LAMBDA real_type_name :
                 Lowered(str, indents,
                         add_known_type(known, typedef.ident,
                                        IF typedef.ident \in DOMAIN known
                                        THEN known[typedef.ident].namespace
                                        ELSE inner_type.namespace,
                                        inner_type.inside_type, real_type_name),
                         OkUnit))

\* write_token, lines 146-175: the alias of a known type
write_alias(str, indents, typedef, inner_type, b, known) ==
    TryLower(alias_real_type_name(inner_type,
                                  typedef.ty.segments[Len(typedef.ty.segments)],
                                  b, known),
             str, indents, known,
             LAMBDA real_type_name :
                 Lowered(str, indents,
                         add_known_type(known, typedef.ident, inner_type.namespace,
                                        inner_type.inside_type, real_type_name),
                         OkUnit))

\* write_token, lines 134-179
write_type(str, indents, typedef, b, known) ==
    IF typedef.ty.t # "Path" THEN Lowered(str, indents, known, OkUnit)
    ELSE IF is_none(get_path_name(typedef.ty.segments))
    THEN Lowered(str, indents, known, OkUnit)
    ELSE IF is_none(get_known_type(known, unwrap(get_path_name(typedef.ty.segments))))
    THEN Lowered(str, indents, known, OkUnit)
    ELSE write_alias(str, indents, typedef,
                     unwrap(get_known_type(known,
                                           unwrap(get_path_name(typedef.ty.segments)))),
                     b, known)

RECURSIVE write_token(_, _, _, _, _, _)
RECURSIVE write_items(_, _, _, _, _)

\* write_items, were a module not opened
write_items_unopened(done, items, i, b, hash_order) == done

\* write_token, lines 124-126: the items of a module, until one fails;
\* done is what the items before i have left
write_items(done, items, i, b, hash_order) ==
    IF i > Len(items) THEN done
    ELSE IF ~is_ok(done.r) THEN done
    ELSE write_items(
             write_token(done.str, items[i], done.indents, b, done.known, hash_order),
             items, i + 1, b, hash_order)

write_token(str, token, indents, b, known, hash_order) ==
    CASE token.item = "Enum" -> write_enum(str, indents, token, b, known)
      [] token.item = "Fn" -> write_function(str, indents, b, known, token)
      [] token.item = "Mod" ->
            IF is_none(token.content) THEN Lowered(str, indents, known, OkUnit)
            ELSE write_items(Lowered(str, indents, known, OkUnit),
                             unwrap(token.content), 1, b, hash_order)
      [] token.item = "Struct" -> write_struct(str, indents, token, b, known, hash_order)
      [] token.item = "Type" -> write_type(str, indents, token, b, known)
      [] OTHER -> Lowered(str, indents, known, OkUnit)

----------------------------------------------------------------------------
(* The builder and build_csharp *)

EmptyRegistry == [n \in {} |-> None]

\* CSharpConfiguration::new: the banner and the import directives it sets
GeneratedWarning == <<"Automatically generated, do not edit!">>
Usings == <<"System", "System.Runtime.InteropServices">>

\* the builder as the lowerers read it
Builder ==
    [namespace |-> namespace, type_name |-> type_name,
     csharp_version |-> csharp_version, out_type |-> out_type]

RECURSIVE write_lines(_, _, _, _, _)
write_lines(str, prefix, lines, suffix, indents) ==
    IF lines = <<>> THEN str
    ELSE write_lines(write_line(str, prefix \o Head(lines) \o suffix, indents),
                     prefix, Tail(lines), suffix, indents)

\* build_csharp, lines 49-80: the text and indentation before the first token
Preamble ==
    LET s1 == write_lines(<<>>, "// ", GeneratedWarning, "", 0)
        s2 == writeln(write_lines(s1, "using ", Usings, ";", 0))
        s3 == IF is_none(namespace) THEN s2
              ELSE write_line(write_line(s2, "namespace " \o unwrap(namespace), 0),
                              "{", 0)
        i3 == IF is_none(namespace) THEN 0 ELSE 1
        s4 == IF is_none(type_name) THEN s3
              ELSE write_line(
                       write_line(s3, "internal static class " \o unwrap(type_name), i3),
                       "{", i3)
        i4 == IF is_none(type_name) THEN i3 ELSE i3 + 1
    IN  [str |-> s4, indents |-> i4]

\* Closing, were the braces written at the depth of the declarations
Closing_at_depth(str, indents) ==
    LET s1 == IF is_none(type_name) THEN str ELSE write_line(str, "}", indents)
        s2 == IF is_none(namespace) THEN s1 ELSE write_line(s1, "}", indents)
    IN  [str |-> s2, indents |-> 0]

\* build_csharp, lines 86-100: the text once the wrappers are closed
Closing(str, indents) ==
    LET i1 == IF is_none(type_name) THEN indents ELSE indents - 1
        s1 == IF is_none(type_name) THEN str ELSE write_line(str, "}", i1)
        i2 == IF is_none(namespace) THEN i1 ELSE i1 - 1
        s2 == IF is_none(namespace) THEN s1 ELSE write_line(s1, "}", i2)
    IN  [str |-> s2, indents |-> i2]

\* the arrangements a HashSet<String> of type parameters may iterate in
HashOrders == {<<"T", "U">>, <<"U", "T">>}

Namespaces == {"foo", "Diff.Test"}
TypeNames == {"bar", "DiffType"}

\* CSharpConfiguration::new(version), then set_out_type for Some(marker)
InitOn(Versions, OutTypes) ==
    /\ known_types = EmptyRegistry
    /\ begin_known_types = EmptyRegistry
    /\ csharp_version \in Versions
    /\ out_type \in OutTypes
    /\ tokens = <<>>
    /\ namespace = None
    /\ type_name = None
    /\ pc = "idle"
    /\ script = <<>>
    /\ indent = 0
    /\ idx = 0
    /\ result = None

\* CSharpBuilder::new on a parsed script
new(tree) ==
    /\ pc \in {"idle", "ready", "done"}
    /\ tokens' = tree
    /\ namespace' = None
    /\ type_name' = None
    /\ pc' = "ready"
    /\ result' = None
    /\ begin_known_types' = known_types
    /\ UNCHANGED <<known_types, csharp_version, out_type, script, indent, idx>>

set_namespace(ns) ==
    /\ pc \in {"ready", "done"}
    /\ namespace' = Some(ns)
    /\ pc' = "ready"
    /\ result' = None
    /\ begin_known_types' = known_types
    /\ UNCHANGED <<known_types, csharp_version, out_type, tokens, type_name,
                   script, indent, idx>>

set_type(ty) ==
    /\ pc \in {"ready", "done"}
    /\ type_name' = Some(ty)
    /\ pc' = "ready"
    /\ result' = None
    /\ begin_known_types' = known_types
    /\ UNCHANGED <<known_types, csharp_version, out_type, tokens, namespace,
                   script, indent, idx>>

\* build_csharp up to its loop over the tokens
build_begin ==
    /\ pc \in {"ready", "done"}
    /\ script' = Preamble.str
    /\ indent' = Preamble.indents
    /\ idx' = 1
    /\ pc' = "building"
    /\ result' = None
    /\ begin_known_types' = known_types
    /\ UNCHANGED <<known_types, csharp_version, out_type, tokens, namespace, type_name>>

\* after_token, were the registry of a failed pass put back as the pass found it
after_token_rolling_back(one) ==
    /\ known_types' = IF is_ok(one.r) THEN one.known ELSE begin_known_types
    /\ IF is_ok(one.r)
       THEN /\ script' = one.str
            /\ indent' = one.indents
            /\ idx' = idx + 1
            /\ pc' = "building"
            /\ result' = None
       ELSE /\ script' = <<>>
            /\ indent' = 0
            /\ idx' = idx
            /\ pc' = IF is_err(one.r) THEN "done" ELSE "panicked"
            /\ result' = Some(one.r)

\* build_csharp, line 83: what `write_token(...)?` leaves when it gave `one`
after_token(one) ==
    /\ known_types' = one.known
    /\ IF is_ok(one.r)
       THEN /\ script' = one.str
            /\ indent' = one.indents
            /\ idx' = idx + 1
            /\ pc' = "building"
            /\ result' = None
       ELSE /\ script' = <<>>
            /\ indent' = 0
            /\ idx' = idx
            /\ pc' = IF is_err(one.r) THEN "done" ELSE "panicked"
            /\ result' = Some(one.r)

\* one turn of the loop of build_csharp: write_token(...)?
build_token ==
    /\ pc = "building"
    /\ idx <= Len(tokens)
    /\ \E hash_order \in HashOrders :
         after_token(write_token(script, tokens[idx], indent, Builder, known_types,
                                 hash_order))
    /\ UNCHANGED <<begin_known_types, csharp_version, out_type, tokens, namespace,
                   type_name>>

\* build_csharp after its loop: close the wrappers, return the text
build_end ==
    /\ pc = "building"
    /\ idx > Len(tokens)
    /\ result' = Some(Ok(Closing(script, indent).str))
    /\ indent' = Closing(script, indent).indents
    /\ script' = <<>>
    /\ pc' = "done"
    /\ UNCHANGED <<known_types, begin_known_types, csharp_version, out_type, tokens,
                   namespace, type_name, idx>>

NextOn(TreeSet, Nss, Tys) ==
    \/ \E tree \in TreeSet : new(tree)
    \/ \E ns \in Nss : set_namespace(ns)
    \/ \E ty \in Tys : set_type(ty)
    \/ build_begin
    \/ build_token
    \/ build_end

\* the trees of at most MaxItems top-level declarations taken from a catalog
MaxItems == 2
Trees(Catalog) == UNION {[1..n -> Catalog] : n \in 0..MaxItems}

----------------------------------------------------------------------------
(* The declarations the passes are run on *)

Known == "Known"
Foo == <<"f", "o", "o">>

\* #[repr(u8)] enum Known { Val1 }
EnumKnown == ItemEnum(<<Repr("u8")>>, Known, <<Variant("Val1", <<>>, None)>>)
\* #[repr(C)] struct Known { field_a: u8 }
StructKnown ==
    ItemStruct(<<Repr("C")>>, Known, <<>>,
               <<Field(<<>>, Some(<<"f", "_", "a">>), Named("u8"))>>)
\* pub extern "C" fn foo() -> ty {}
FnReturning(ty) == ItemFn(<<>>, Abi("C"), Foo, <<>>, Some(ty))
\* pub extern "C" fn foo(p: ty) {}
FnTaking(ty) == ItemFn(<<>>, Abi("C"), Foo, <<Typed(PatIdent(<<"p">>), ty)>>, None)
\* mod m { items }
Module(items) == ItemMod(Some(items))

\* #[repr(C)] struct Holder { f_a: ty }
StructHolding(ty) ==
    ItemStruct(<<Repr("C")>>, "Holder", <<>>,
               <<Field(<<>>, Some(<<"f", "_", "a">>), ty)>>)

Other == "Other"
\* #[repr(u16)] enum Other { Val1 }
EnumOther == ItemEnum(<<Repr("u16")>>, Other, <<Variant("Val1", <<>>, None)>>)
\* type Known = Other;
AliasKnownOfOther == ItemType(Known, Named(Other))

\* type Alias = Known<Nope>;
AliasOfKnownWithUnknownArgument == ItemType("Alias", Generic(Known, <<Named("Nope")>>))

\* type Alias = Known<usize>;
AliasOfKnownWithPointerSized == ItemType("Alias", Generic(Known, <<Named("usize")>>))

Catalog ==
    {EnumKnown, StructKnown, FnReturning(Named(Known)), FnReturning(Named("bool")),
     AliasOfKnownWithPointerSized}

Init == InitOn({CSharp9}, {None})
Next == NextOn(Trees(Catalog), Namespaces, TypeNames)
Spec == Init /\ [][Next]_vars

----------------------------------------------------------------------------
(* What the claims speak of *)

\* the last build returned Ok(text) / Err(e)
Returned == pc = "done" /\ is_some(result)
ReturnedOk == Returned /\ is_ok(unwrap(result))
ReturnedErr == Returned /\ is_err(unwrap(result))
Text == unwrap(result).val
Error == unwrap(result).err

\* text has a line reading s
HasLine(text, s) == \E i \in 1..Len(text) : text[i].text = s

\* the declaration line of `extern "C" fn foo() -> ...` with managed type q
FooReturning(q) == "internal static extern " \o q \o " Foo();"

UnknownTypeError(name) == UnknownType("Type with name '" \o name \o "' was not found")

\* the turn of the loop that lowers tokens[idx] is about to be taken
AtToken(token) == pc = "building" /\ idx <= Len(tokens) /\ tokens[idx] = token
\* ... and was taken without failure
Lowers(token) == AtToken(token) /\ pc' = "building"

\* the context of the builder, and an identity as the registry holds it
Context == [namespace |-> namespace, inside_type |-> type_name]

\* the five cases of the qualification table, tried in this order
Qualified(T, C) ==
    IF T.namespace = C.namespace
       /\ (T.inside_type = C.inside_type \/ is_none(T.inside_type))
    THEN T.real_type_name
    ELSE IF T.namespace = C.namespace
    THEN unwrap(T.inside_type) \o "." \o T.real_type_name
    ELSE IF is_none(T.inside_type)
    THEN (IF is_none(T.namespace) THEN T.real_type_name
          ELSE unwrap(T.namespace) \o "." \o T.real_type_name)
    ELSE IF is_none(T.namespace)
    THEN unwrap(T.inside_type) \o "." \o T.real_type_name
    ELSE unwrap(T.namespace) \o "." \o unwrap(T.inside_type) \o "." \o T.real_type_name

\* a pass over the single declaration `extern "C" fn foo() -> Known` has returned
\* on a registry that holds Known
ReferencePassReturned ==
    /\ Returned
    /\ tokens = <<FnReturning(Named(Known))>>
    /\ Known \in DOMAIN known_types

----------------------------------------------------------------------------
(* C1 *)

C1_Registers ==
    \A token \in {EnumKnown, StructKnown} :
        Lowers(token) =>
            /\ Known \in DOMAIN known_types'
            /\ known_types'[Known] = CSharpType(namespace, type_name, Known)

\* the ways of writing the identity T: its name behind none, one or both of the
\* segments it has
Spellings(T) ==
    LET ns == IF is_none(T.namespace) THEN {} ELSE {unwrap(T.namespace) \o "."}
        enc == IF is_none(T.inside_type) THEN {} ELSE {unwrap(T.inside_type) \o "."}
    IN  {a \o b \o T.real_type_name : a \in ns \cup {""}, b \in enc \cup {""}}

C1_Resolves ==
    ReferencePassReturned =>
        /\ ReturnedOk
        /\ \E q \in Spellings(known_types[Known]) : HasLine(Text, FooReturning(q))

\* C1: a pass that lowers the width-marked enum or the repr(C) record Known under
\* the context (ns1, enc1) leaves Known registered as (ns1, enc1, Known); a later
\* pass on the same registry that refers to Known succeeds, and its text names
\* that identity qualified relative to its own context, whatever the namespaces
\* and enclosing types of the two passes are.
C1_TwoPasses == [][C1_Registers]_vars /\ []C1_Resolves

\* the later pass ran under a namespace and an enclosing type that both differ
\* from those Known was registered under
C1_Witness ==
    /\ ReferencePassReturned
    /\ ReturnedOk
    /\ is_some(known_types[Known].namespace)
    /\ is_some(known_types[Known].inside_type)
    /\ is_some(namespace) /\ namespace # known_types[Known].namespace
    /\ is_some(type_name) /\ type_name # known_types[Known].inside_type

----------------------------------------------------------------------------
(* C2 *)

OrderCatalog ==
    {EnumKnown, FnReturning(Named(Known)), StructHolding(Named(Known)),
     Module(<<EnumKnown>>), Module(<<FnReturning(Named(Known)), EnumKnown>>)}

InitOrder == InitOn({CSharp9}, {None})
NextOrder == NextOn(Trees(OrderCatalog), {"foo"}, {"bar"})
SpecOrder == InitOrder /\ [][NextOrder]_vars

\* the declarations of a tree in document order, the inline modules opened
RECURSIVE Flatten(_)
Flatten(items) ==
    IF items = <<>> THEN <<>>
    ELSE (IF Head(items).item # "Mod" THEN <<Head(items)>>
          ELSE IF is_none(Head(items).content) THEN <<>>
          ELSE Flatten(unwrap(Head(items).content)))
         \o Flatten(Tail(items))

RegistersKnown(item) == item \in {EnumKnown, StructKnown}
RefersToKnown(item) ==
    item \in {FnReturning(Named(Known)), StructHolding(Named(Known))}

\* the place of the first reference to Known among the declarations ds
FirstReference(ds) ==
    CHOOSE k \in 1..Len(ds) :
        RefersToKnown(ds[k]) /\ \A j \in 1..(k - 1) : ~RefersToKnown(ds[j])

DeclaredBefore(ds, k) == \E j \in 1..(k - 1) : RegistersKnown(ds[j])

\* a pass has returned that began on a registry without Known and whose tree
\* refers to Known
OrderPassReturned ==
    /\ Returned
    /\ Known \notin DOMAIN begin_known_types
    /\ \E k \in 1..Len(Flatten(tokens)) : RefersToKnown(Flatten(tokens)[k])

\* C2: in a pass begun on a registry without Known, a reference to Known in a
\* function signature or a record field resolves only if a declaration that
\* registers Known stands before it in document order, modules opened;
\* otherwise, also when Known is declared later in the tree, the pass fails at
\* the reference with the unknown-type error for Known.
C2_DocumentOrder ==
    OrderPassReturned =>
        IF DeclaredBefore(Flatten(tokens), FirstReference(Flatten(tokens)))
        THEN ReturnedOk
        ELSE /\ ReturnedErr
             /\ Error = UnknownTypeError(Known)
             /\ Known \notin DOMAIN known_types

\* Known is referred to and declared only afterwards, in the same module
C2_Witness ==
    /\ OrderPassReturned
    /\ tokens = <<Module(<<FnReturning(Named(Known)), EnumKnown>>)>>
    /\ ReturnedErr

----------------------------------------------------------------------------
(* C3, C4 *)

\* C3: for every registered identity T and every context C, a reference to T is
\* written exactly as the five-case table gives it, the cases taken in their
\* order: name; enc.name; name or ns.name; enc.name; ns.enc.name.
C3_FiveCases ==
    ReferencePassReturned =>
        /\ ReturnedOk
        /\ HasLine(Text, FooReturning(Qualified(known_types[Known], Context)))

\* the second case, which the order of the checks decides: same namespace,
\* another enclosing type
C3_Witness ==
    /\ ReferencePassReturned
    /\ is_some(namespace) /\ known_types[Known].namespace = namespace
    /\ is_some(known_types[Known].inside_type)
    /\ is_some(type_name) /\ known_types[Known].inside_type # type_name
    /\ HasLine(Text, FooReturning(unwrap(known_types[Known].inside_type) \o ".Known"))

\* the context supplies the namespace of T, or T has none
NamespaceImplied(T, C) == is_none(T.namespace) \/ T.namespace = C.namespace
\* the context supplies the enclosing type of T, or T has none
EnclosingImplied(T, C) ==
    \/ is_none(T.inside_type)
    \/ T.namespace = C.namespace /\ T.inside_type = C.inside_type

\* the name of T with exactly the segments the context does not imply
Needed(T, C) ==
    (IF NamespaceImplied(T, C) THEN "" ELSE unwrap(T.namespace) \o ".")
    \o (IF EnclosingImplied(T, C) THEN "" ELSE unwrap(T.inside_type) \o ".")
    \o T.real_type_name

\* C4: the emitted name of a registered identity leaves out the namespace
\* segment only when the context has the same namespace or the identity has
\* none, leaves out the enclosing-type segment only when the identity has none
\* or the context has the same namespace and enclosing type, and has every
\* other segment.
C4_SegmentsOmitted ==
    ReferencePassReturned =>
        /\ ReturnedOk
        /\ HasLine(Text, FooReturning(Needed(known_types[Known], Context)))

\* same enclosing type under another namespace: both segments are written
C4_Witness ==
    /\ ReferencePassReturned
    /\ is_some(namespace) /\ is_some(known_types[Known].namespace)
    /\ known_types[Known].namespace # namespace
    /\ is_some(type_name) /\ known_types[Known].inside_type = type_name
    /\ HasLine(Text, FooReturning(unwrap(known_types[Known].namespace) \o "."
                                  \o unwrap(type_name) \o ".Known"))

----------------------------------------------------------------------------
(* C7 *)

\* C7: no step of any pass, successful or failed, takes a name out of the
\* registry: the set of registered names never shrinks.
C7_NeverRemoves == [][DOMAIN known_types \subseteq DOMAIN known_types']_vars

\* a pass that failed after it had registered a name the registry lacked before
C7_Witness ==
    /\ ReturnedErr
    /\ Known \in DOMAIN known_types
    /\ Known \notin DOMAIN begin_known_types

----------------------------------------------------------------------------
(* C5 *)

Out == "Out"
Nope == "Nope"

\* the declarations that refer to Known as a return type, a parameter type, a
\* record field, a pointer target, a reference target and a generic argument
ReferencesToKnown ==
    {FnReturning(Named(Known)), FnTaking(Named(Known)), StructHolding(Named(Known)),
     FnReturning(TypePtr(Named(Known))), FnTaking(TypeReference(Named(Known))),
     FnTaking(Generic(Out, <<Named(Known)>>))}

\* the declarations that give the never registered Nope as a generic argument
\* of Known: fn foo() -> Known<Nope> and type Alias = Known<Nope>
SignatureWithUnknownArgument == FnReturning(Generic(Known, <<Named(Nope)>>))
ArgumentsOfKnown == {SignatureWithUnknownArgument, AliasOfKnownWithUnknownArgument}

UnknownCatalog == {EnumKnown} \cup ReferencesToKnown \cup ArgumentsOfKnown

InitUnknown == InitOn({CSharp9}, {Some(Out)})
NextUnknown == NextOn(Trees(UnknownCatalog), {"foo"}, {"bar"})
SpecUnknown == InitUnknown /\ [][NextUnknown]_vars

\* the pass ends on the unknown-type error that carries name
FailsOnUnknown(name) ==
    pc' = "done" /\ result' = Some(Err(UnknownTypeError(name)))

\* the declaration about to be lowered resolves a name that is no primitive,
\* not the out marker and not registered: the name, in a set
UnknownResolved(among) ==
    (IF \E t \in ReferencesToKnown \cap among :
            AtToken(t) /\ Known \notin DOMAIN known_types
     THEN {Known} ELSE {})
    \cup (IF \E t \in ArgumentsOfKnown \cap among :
                 AtToken(t) /\ Known \in DOMAIN known_types
          THEN {Nope} ELSE {})

\* what the claim says where the name stands in a function signature or in a
\* record field
C5_InSignaturesAndRecords ==
    [][\A name \in UnknownResolved(UnknownCatalog \ {AliasOfKnownWithUnknownArgument}) :
           FailsOnUnknown(name)]_vars

\* C5: wherever a lowered declaration has a named type that is no primitive, not
\* the out marker and not registered (as a return type, a parameter type, a
\* record field, a pointer or reference target or a generic argument), the pass
\* fails and build returns the unknown-type error that carries the name.
C5_UnknownEverywhere ==
    [][\A name \in UnknownResolved(UnknownCatalog) : FailsOnUnknown(name)]_vars

----------------------------------------------------------------------------
(* C6 *)

\* the text of a pass that lowered every declaration of its tree
CompleteText(text) ==
    /\ Len(text) >= Len(Preamble.str)
    /\ SubSeq(text, 1, Len(Preamble.str)) = Preamble.str
    /\ \A i \in 1..Len(tokens) :
        /\ tokens[i] = EnumKnown => HasLine(text, "public enum Known : byte")
        /\ tokens[i] = StructKnown => HasLine(text, "public struct Known")
        /\ tokens[i].item = "Fn" =>
               \E T \in {begin_known_types[n] : n \in DOMAIN begin_known_types}
                          \cup {CSharpType(namespace, type_name, Known)} :
                   \E q \in Spellings(T) : HasLine(text, FooReturning(q))
    /\ text = Closing(SubSeq(text, 1, Len(text) - Preamble.indents),
                      Preamble.indents).str

\* what the claim says of the passes that return
C6_WhenReturned ==
    /\ ReturnedErr =>
        /\ script = <<>>
        /\ idx \in 1..Len(tokens)
        /\ (Known \notin DOMAIN begin_known_types
            /\ \A j \in 1..idx : ~RegistersKnown(tokens[j]))
           => Known \notin DOMAIN known_types
    /\ ReturnedOk => CompleteText(Text)

\* C6: a pass is all-or-nothing: when a declaration fails, no later declaration
\* is processed and build returns one error and no text; otherwise build
\* returns the complete text.
C6_AllOrNothing == pc # "panicked" /\ C6_WhenReturned

----------------------------------------------------------------------------
(* C8 *)

AliasCatalog ==
    {StructKnown, EnumOther, AliasKnownOfOther, FnReturning(Named(Known))}

InitAlias == InitOn({CSharp9}, {None})
NextAlias == NextOn(Trees(AliasCatalog), {"foo"}, {"bar"})
SpecAlias == InitAlias /\ [][NextAlias]_vars

\* the entry of name, None when there is none
Entry(known, name) == IF name \in DOMAIN known THEN Some(known[name]) ELSE None

\* a step that registers a name leaves for it exactly the identity it
\* registers; any other step leaves the entry of the name as it was
C8_Overwrites ==
    /\ Entry(known_types', Other)
         = IF Lowers(EnumOther) THEN Some(CSharpType(namespace, type_name, Other))
           ELSE Entry(known_types, Other)
    /\ Entry(known_types', Known)
         = IF Lowers(StructKnown) THEN Some(CSharpType(namespace, type_name, Known))
           ELSE IF Lowers(AliasKnownOfOther) /\ Other \in DOMAIN known_types
           THEN Some(CSharpType(known_types[Other].namespace,
                                known_types[Other].inside_type, Other))
           ELSE Entry(known_types, Known)

\* a lookup of Known is answered from its entry
C8_LooksUp ==
    ReferencePassReturned =>
        /\ ReturnedOk
        /\ HasLine(Text, FooReturning(Qualified(known_types[Known], Context)))

\* C8: when a name is registered again, by an enum, a record or an alias, in
\* the same pass or in another pass under another context, the registry holds
\* for it exactly the identity of the latest registration, nothing of an
\* earlier one, and every later lookup of the name is answered with it.
C8_LastWriterWins == [][C8_Overwrites]_vars /\ []C8_LooksUp

\* Known, registered by a record before the pass, is now the alias of Other,
\* and no component of its identity is what it was
C8_Witness ==
    /\ Returned
    /\ Known \in DOMAIN begin_known_types /\ Known \in DOMAIN known_types
    /\ begin_known_types[Known].real_type_name = Known
    /\ known_types[Known].real_type_name = Other
    /\ known_types[Known].namespace # begin_known_types[Known].namespace
    /\ known_types[Known].inside_type # begin_known_types[Known].inside_type

----------------------------------------------------------------------------
(* C9, C10 *)

\* a field of a variant; the lowerer only asks whether a variant has any
VariantField == [ty |-> Named("bool")]
\* #[derive(Clone)]
Derive == MetaList(Some("derive"),
                   <<NestedMeta(MetaPath(<<Segment("Clone", PathArgumentsNone)>>))>>)

\* #[derive(Clone)] enum Plain { A(bool) }
EnumUnmarked == ItemEnum(<<Derive>>, "Plain", <<Variant("A", <<VariantField>>, None)>>)
\* struct Bare { f_a: bool, f_b: Nope }
StructUnmarked ==
    ItemStruct(<<>>, "Bare", <<>>,
               <<Field(<<>>, Some(<<"f", "_", "a">>), Named("bool")),
                 Field(<<>>, Some(<<"f", "_", "b">>), Named(Nope))>>)
\* #[repr(packed)] struct Packed { f_a: [u8; 4] }
StructPacked ==
    ItemStruct(<<Repr("packed")>>, "Packed", <<>>,
               <<Field(<<>>, Some(<<"f", "_", "a">>), TypeOther("Array"))>>)
Skipped == {EnumUnmarked, StructUnmarked, StructPacked}

\* #[repr(C)] enum Native { Val1 }
EnumNative == ItemEnum(<<Repr("C")>>, "Native", <<Variant("Val1", <<>>, None)>>)
\* #[repr(u8)] #[repr(C)] enum Native { Val1 }
EnumWidthThenNative ==
    ItemEnum(<<Repr("u8"), Repr("C")>>, "Native", <<Variant("Val1", <<>>, None)>>)
\* #[repr(u8)] #[repr(u16)] enum Twice { Val1 }
EnumTwoWidths ==
    ItemEnum(<<Repr("u8"), Repr("u16")>>, "Twice", <<Variant("Val1", <<>>, None)>>)
Enums == {EnumKnown, EnumUnmarked, EnumNative, EnumWidthThenNative, EnumTwoWidths}

InitSkipped == InitOn({CSharp9}, {None})
NextSkipped == NextOn(Trees(Skipped \cup {EnumKnown}), {"foo"}, {"bar"})
SpecSkipped == InitSkipped /\ [][NextSkipped]_vars

InitEnums == InitOn({CSharp9}, {None})
NextEnums == NextOn(Trees(Enums), {"foo"}, {"bar"})
SpecEnums == InitEnums /\ [][NextEnums]_vars

\* C9: a record without a repr(C) marker and an enum without a representation
\* marker are skipped: lowering one appends nothing to the text, leaves the
\* registry as it is and fails on none of its fields or variants, unsupported
\* or unknown as their types may be.
C9_Skipped ==
    [][\A token \in Skipped :
           AtToken(token) =>
               /\ pc' = "building" /\ idx' = idx + 1 /\ result' = None
               /\ script' = script /\ indent' = indent
               /\ known_types' = known_types]_vars

\* a pass over an unmarked record and an unmarked enum has returned the text of
\* a pass over no declaration
C9_Witness ==
    /\ ReturnedOk
    /\ tokens = <<StructUnmarked, EnumUnmarked>>
    /\ Text = Closing(Preamble.str, Preamble.indents).str
    /\ known_types = begin_known_types

\* the fixed-width integer markers and the underlying types they stand for
WidthMarkers ==
    [u8 |-> "byte", u16 |-> "ushort", u32 |-> "uint", u64 |-> "ulong",
     i8 |-> "sbyte", i16 |-> "short", i32 |-> "int", i64 |-> "long"]

\* the markers of an enum: the identifier of each #[repr(identifier)] it carries
RECURSIVE Markers(_)
Markers(attrs) ==
    IF attrs = <<>> THEN <<>>
    ELSE (IF Head(attrs).meta = "List" /\ Head(attrs).ident = Some("repr")
          THEN <<Head(attrs).nested[1].m.segments[1].ident>> ELSE <<>>)
         \o Markers(Tail(attrs))

WidthsOf(en) == SelectSeq(Markers(en.attrs), LAMBDA x : x \in DOMAIN WidthMarkers)
IsBareNative(en) == Markers(en.attrs) = <<"C">>

\* the step has written the header of the enum en with the underlying type size
Emits(en, size) ==
    /\ Len(script') > Len(script)
    /\ \E i \in (Len(script) + 1)..Len(script') :
           script'[i].text = "public enum " \o en.ident \o " : " \o size

\* a step on an enum with a bare repr(C) ends the pass on the unsupported-
\* construct error and registers nothing
C10_NativeRejected ==
    \A en \in Enums :
        (AtToken(en) /\ IsBareNative(en)) =>
            /\ pc' = "done" /\ is_err(unwrap(result'))
            /\ unwrap(result').err.kind = "UnsupportedError"
            /\ known_types' = known_types

\* a step that lowers an enum finds exactly one width marker on it and emits
\* the underlying type of that marker
C10_SingleWidth ==
    \A en \in Enums :
        (Lowers(en) /\ script' # script)
            => /\ Len(WidthsOf(en)) = 1
               /\ Emits(en, WidthMarkers[WidthsOf(en)[1]])

\* C10: an enum is lowered only with exactly one explicit fixed-width marker: an
\* enum with a bare repr(C) fails the pass with the unsupported-construct error
\* and is not registered, and no enum is emitted with an underlying type other
\* than the one its single width marker gives.
C10_ExactlyOneWidth == [][C10_NativeRejected /\ C10_SingleWidth]_vars


----------------------------------------------------------------------------
(* C11 *)

\* #[repr(transparent)] enum Wrapper { Val1 }
EnumTransparent ==
    ItemEnum(<<Repr("transparent")>>, "Wrapper", <<Variant("Val1", <<>>, None)>>)
\* #[repr(align(4))]
ReprAlign == MetaList(Some("repr"), <<NestedMeta(MetaList(Some("align"), <<NestedLit>>))>>)
\* #[repr(align(4))] enum Aligned { Val1 }
EnumAligned == ItemEnum(<<ReprAlign>>, "Aligned", <<Variant("Val1", <<>>, None)>>)
\* #[repr(u8)] enum transparent { Val1 }: a registered type named as a marker is
EnumNamedTransparent ==
    ItemEnum(<<Repr("u8")>>, "transparent", <<Variant("Val1", <<>>, None)>>)

\* the enums whose only marker is neither C nor a fixed-width integer
OtherMarked == {EnumTransparent, EnumAligned}

InitMarkers == InitOn({CSharp9}, {None})
NextMarkers ==
    NextOn(Trees(OtherMarked \cup {EnumNamedTransparent}), {"foo"}, {"bar"})
SpecMarkers == InitMarkers /\ [][NextMarkers]_vars

\* the step passes the declaration over: nothing written, nothing registered,
\* no error
PassesOver(token) ==
    AtToken(token) =>
        /\ pc' = "building" /\ idx' = idx + 1 /\ result' = None
        /\ script' = script /\ indent' = indent
        /\ known_types' = known_types

\* what holds of a marker that is not a single name, as align(4) is
C11_NestedMarkerIgnored == [][PassesOver(EnumAligned)]_vars

\* C11: an enum whose only representation markers are neither the bare C marker
\* nor a fixed-width integer is passed over like an enum without a marker: no
\* error, no underlying type chosen, nothing written or registered, whatever
\* the registry contains.
C11_OtherMarkersIgnored == [][\A token \in OtherMarked : PassesOver(token)]_vars

----------------------------------------------------------------------------
(* C12, C13 *)

Literal(digits) == Some(ExprLit(LitInt(digits)))

\* #[repr(u8)] enum Fielded { Val1, Val2(bool) }
EnumFielded ==
    ItemEnum(<<Repr("u8")>>, "Fielded",
             <<Variant("Val1", <<>>, None), Variant("Val2", <<VariantField>>, None)>>)
\* #[repr(u8)] enum Sequence { One, Two, Three }
EnumSequence ==
    ItemEnum(<<Repr("u8")>>, "Sequence",
             <<Variant("One", <<>>, None), Variant("Two", <<>>, None),
               Variant("Three", <<>>, None)>>)
\* #[repr(u16)] enum Values { One = 1, Two = 2, Five = 5 }
EnumValues ==
    ItemEnum(<<Repr("u16")>>, "Values",
             <<Variant("One", <<>>, Literal("1")), Variant("Two", <<>>, Literal("2")),
               Variant("Five", <<>>, Literal("5"))>>)
\* #[repr(i8)] enum Signed { Minus = -1, Zero, Two = 2 }
EnumSigned ==
    ItemEnum(<<Repr("i8")>>, "Signed",
             <<Variant("Minus", <<>>, Some(ExprNeg(LitInt("1")))),
               Variant("Zero", <<>>, None), Variant("Two", <<>>, Literal("2"))>>)

InitFielded == InitOn({CSharp9}, {None})
NextFielded == NextOn(Trees({EnumFielded, EnumValues}), {"foo"}, {"bar"})
SpecFielded == InitFielded /\ [][NextFielded]_vars

VariantEnums == {EnumSequence, EnumValues, EnumSigned}

InitVariants == InitOn({CSharp9}, {None})
NextVariants == NextOn(Trees(VariantEnums), {"foo"}, {"bar"})
SpecVariants == InitVariants /\ [][NextVariants]_vars

FieldedError == UnsupportedError("Enum with values with fields is not supported")

C12_Fails ==
    AtToken(EnumFielded) =>
        /\ pc' = "done"
        /\ result' = Some(Err(FieldedError))
        /\ known_types' = known_types

\* C12: lowering a width-marked enum of which a variant carries fields ends the
\* pass on the unsupported-construct error; the enum is never registered, and
\* build returns the error alone, without the header and the variants written
\* before the failure.
C12_FieldedVariantFails ==
    [][C12_Fails]_vars /\ []("Fielded" \notin DOMAIN known_types)

\* the pass lowered and registered another enum, then failed on the variant with
\* fields
C12_Witness ==
    /\ ReturnedErr
    /\ Error = FieldedError
    /\ tokens = <<EnumValues, EnumFielded>>
    /\ "Values" \in DOMAIN known_types
    /\ "Values" \notin DOMAIN begin_known_types

\* the text of each line the step has appended
Appended == [i \in 1..(Len(script') - Len(script)) |-> script'[Len(script) + i].text]

\* the value of a discriminant as the declaration gives it
ValueOf(d) == IF d.e = "Lit" THEN d.lit.digits ELSE d.op \o d.expr.lit.digits

\* the line of each variant: `Name = value,` with a discriminant, `Name,` without
VariantLines(en, HasValue(_)) ==
    [i \in 1..Len(en.variants) |->
        en.variants[i].ident
        \o (IF HasValue(en.variants[i].discriminant)
            THEN " = " \o ValueOf(unwrap(en.variants[i].discriminant)) ELSE "")
        \o ","]

\* the lines of a lowered enum with the given variant lines
EnumLines(en, lines) ==
    <<"public enum " \o en.ident \o " : " \o WidthMarkers[WidthsOf(en)[1]], "{">>
    \o lines \o <<"}", "">>

\* what holds: the discriminants that are integer literals are kept
C13_LiteralsKept ==
    [][\A en \in VariantEnums :
           Lowers(en) =>
               Appended = EnumLines(en, VariantLines(en,
                              LAMBDA d : is_some(d) /\ unwrap(d).e = "Lit"))]_vars

\* C13: a lowered enum has its variants in declaration order, one per line,
\* each variant with an explicit discriminant as `Name = value` with the value
\* as declared, each variant without one as `Name` alone.
C13_VariantsInOrder ==
    [][\A en \in VariantEnums :
           Lowers(en) =>
               Appended = EnumLines(en, VariantLines(en, LAMBDA d : is_some(d)))]_vars

----------------------------------------------------------------------------
(* C14 *)

\* #[repr(C)] struct Pair { field_a: u8, field_b: u8 }
StructPair ==
    ItemStruct(<<Repr("C")>>, "Pair", <<>>,
               <<Field(<<>>, Some(<<"f", "i", "e", "l", "d", "_", "a">>), Named("u8")),
                 Field(<<>>, Some(<<"f", "i", "e", "l", "d", "_", "b">>), Named("u8"))>>)
\* #[repr(C)] struct Tuple(u8);
StructTuple == ItemStruct(<<Repr("C")>>, "Tuple", <<>>, <<Field(<<>>, None, Named("u8"))>>)

\* the versions a configuration is made with: below, at and above the threshold
Versions == {CSharp9 - 1, CSharp9, CSharp9 + 1}

InitRecords == InitOn(Versions, {None})
NextRecords == NextOn(Trees({StructPair, StructTuple}), {"foo"}, {"bar"})
SpecRecords == InitRecords /\ [][NextRecords]_vars

\* the texts of the lines of a text
Texts(text) == [i \in 1..Len(text) |-> text[i].text]
\* lines has the lines of block, one after the other
HasBlock(lines, block) ==
    \E k \in 0..(Len(lines) - Len(block)) : \A i \in 1..Len(block) : lines[k + i] = block[i]

\* a field of type ty under the version v
FieldLine(ty, name, v) ==
    IF v < 9 THEN "public readonly " \o ty \o " " \o name \o ";"
    ELSE "public " \o ty \o " " \o name \o " { get; init; }"

PairLines(v) ==
    <<"public struct Pair", "{",
      "/// <remarks>u8</remarks>", FieldLine("byte", "FieldA", v),
      "/// <remarks>u8</remarks>", FieldLine("byte", "FieldB", v),
      "",
      "public Pair(byte fieldA, byte fieldB)", "{",
      "FieldA = fieldA;", "FieldB = fieldB;",
      "}", "}">>

TupleLines ==
    <<"public struct Tuple", "{", "/// <remarks>u8</remarks>", "",
      "public Tuple()", "{", "}", "}">>

\* C14: under every version v a repr(C) record has each named field as a
\* `public readonly` field when v < 9 and as a `{ get; init; }` property when
\* v >= 9, and ends in both cases with the same constructor: one parameter per
\* named field in field order, named as the field with its first letter in
\* lower case, each field assigned from its parameter.
C14_FieldsByVersion ==
    ReturnedOk =>
        /\ (\E i \in 1..Len(tokens) : tokens[i] = StructPair)
               => HasBlock(Texts(Text), PairLines(csharp_version))
        /\ (\E i \in 1..Len(tokens) : tokens[i] = StructTuple)
               => HasBlock(Texts(Text), TupleLines)

\* the record of two fields lowered under a version below the threshold
C14_Witness ==
    /\ ReturnedOk
    /\ tokens = <<StructPair>>
    /\ csharp_version < 9
    /\ HasLine(Text, "public readonly byte FieldB;")
    /\ HasLine(Text, "public Pair(byte fieldA, byte fieldB)")

----------------------------------------------------------------------------
(* C15 *)

\* #[repr(u8)] enum T { Val1 }: a registered type named as the type parameter is
EnumT == ItemEnum(<<Repr("u8")>>, "T", <<Variant("Val1", <<>>, None)>>)
\* #[repr(C)] struct Generic<T> { f_a: T }
StructGeneric ==
    ItemStruct(<<Repr("C")>>, "Generic", <<TypeParam("T")>>,
               <<Field(<<>>, Some(<<"f", "_", "a">>), Named("T"))>>)
\* #[repr(C)] struct Mixed<T> { f_a: *const T, f_b: Generic<T> }
StructMixed ==
    ItemStruct(<<Repr("C")>>, "Mixed", <<TypeParam("T")>>,
               <<Field(<<>>, Some(<<"f", "_", "a">>), TypePtr(Named("T"))),
                 Field(<<>>, Some(<<"f", "_", "b">>), Generic("Generic", <<Named("T")>>))>>)

InitGeneric == InitOn({CSharp9}, {None})
NextGeneric ==
    NextOn(Trees({EnumT, StructGeneric, StructMixed}), {"foo"}, {"bar"})
SpecGeneric == InitGeneric /\ [][NextGeneric]_vars

\* the step lowers the record and appends exactly these lines
LowersAs(token, lines) == Lowers(token) /\ Appended = lines

StructLayout == "[StructLayout(LayoutKind.Sequential, CharSet = CharSet.Unicode)]"

\* a field that is the type parameter itself is written as T, whatever the
\* registry holds
C15_ParameterKept ==
    AtToken(StructGeneric) =>
        LowersAs(StructGeneric,
                 <<StructLayout, "public struct Generic<T>", "{",
                   "/// <remarks>T</remarks>", "public T FA { get; init; }",
                   "",
                   "public Generic(T fA)", "{", "FA = fA;", "}", "}", "">>)

\* Generic<T> as written from the context, T looked up in the registry
InstanceOfT ==
    Qualified(known_types["Generic"], Context) \o "<"
        \o Qualified(known_types["T"], Context) \o ">"

\* a pointer to the type parameter and an instantiation with it go through the
\* resolver, which looks T up in the registry
C15_OthersResolved ==
    AtToken(StructMixed) =>
        IF "T" \notin DOMAIN known_types THEN FailsOnUnknown("T")
        ELSE IF "Generic" \notin DOMAIN known_types THEN FailsOnUnknown("Generic")
        ELSE LowersAs(StructMixed,
                      <<StructLayout, "public struct Mixed<T>", "{",
                        "/// <remarks>T*</remarks>", "public IntPtr FA { get; init; }",
                        "/// <remarks>Generic</remarks>",
                        "public " \o InstanceOfT \o " FB { get; init; }",
                        "",
                        "public Mixed(IntPtr fA, " \o InstanceOfT \o " fB)", "{",
                        "FA = fA;", "FB = fB;", "}", "}", "">>)

\* C15: in a repr(C) record a field whose type is exactly one of the record's
\* type parameters is written with the parameter's name as its type and as its
\* remark, without the primitive table or the registry being consulted, even
\* when the registry holds a type of that name; every other field type, a
\* pointer to a type parameter or a generic instantiation with one included,
\* goes through the type resolver, and the pass fails when that fails.
C15_TypeParameters == [][C15_ParameterKept /\ C15_OthersResolved]_vars

\* the record was lowered while the registry held a type T of another namespace
C15_Witness ==
    /\ ReturnedOk
    /\ tokens = <<StructGeneric>>
    /\ "T" \in DOMAIN begin_known_types
    /\ is_some(begin_known_types["T"].namespace)
    /\ begin_known_types["T"].namespace # namespace
    /\ HasLine(Text, "public T FA { get; init; }")

----------------------------------------------------------------------------
(* C16 *)

\* `abi fn foo(self, _: [u8; 4]) -> Nope`: a receiver, a pattern that is no
\* identifier, an unsupported type and an unregistered type in one signature
Signature(abi) ==
    ItemFn(<<Doc(<<"I", "t", ".">>)>>, abi, Foo,
           <<Receiver, Typed(PatWild, TypeOther("Array"))>>, Some(Named(Nope)))

\* no extern, extern without a name, an ABI other than "C"
NotC == {Signature(AbiNone), Signature(AbiUnnamed), Signature(Abi("system"))}

\* /// Does it.
\* pub extern "C" fn foo_bar_zet(foo_bar: u8, second_value: u16) -> u8
FnFooBarZet ==
    ItemFn(<<Doc(<<" ", "D", "o", "e", "s", " ", "i", "t", ".">>)>>, Abi("C"),
           <<"f", "o", "o", "_", "b", "a", "r", "_", "z", "e", "t">>,
           <<Typed(PatIdent(<<"f", "o", "o", "_", "b", "a", "r">>), Named("u8")),
             Typed(PatIdent(<<"s", "e", "c", "o", "n", "d", "_", "v", "a", "l", "u", "e">>),
                   Named("u16"))>>,
           Some(Named("u8")))
\* pub extern "C" fn _get__x(Value_a: i32)
FnGetX ==
    ItemFn(<<>>, Abi("C"), <<"_", "g", "e", "t", "_", "_", "x">>,
           <<Typed(PatIdent(<<"V", "a", "l", "u", "e", "_", "a">>), Named("i32"))>>, None)

\* extern "C" fn foo(self)
FnReceiver == ItemFn(<<Doc(<<"I", "t", ".">>)>>, Abi("C"), Foo, <<Receiver>>, None)
\* extern "C" fn foo(p: u8, _: u8)
FnPattern ==
    ItemFn(<<Doc(<<"I", "t", ".">>)>>, Abi("C"), Foo,
           <<Typed(PatIdent(<<"p">>), Named("u8")), Typed(PatWild, Named("u8"))>>, None)
\* extern "C" fn foo(self) -> Nope
FnReceiverReturningUnknown == ItemFn(<<>>, Abi("C"), Foo, <<Receiver>>, Some(Named(Nope)))
\* extern "C" fn foo(p: Nope, _: u8)
FnUnknownThenPattern ==
    ItemFn(<<>>, Abi("C"), Foo,
           <<Typed(PatIdent(<<"p">>), Named(Nope)), Typed(PatWild, Named("u8"))>>, None)

\* the functions with a receiver or with a pattern that is no identifier
NoIdentifier == {FnReceiver, FnPattern, FnReceiverReturningUnknown, FnUnknownThenPattern}

InitFunctions == InitOn({CSharp9}, {None})
NextFunctions == NextOn(Trees(NotC \cup {FnFooBarZet, FnGetX}), {"foo"}, {"bar"})
SpecFunctions == InitFunctions /\ [][NextFunctions]_vars

InitParameters == InitOn({CSharp9}, {None})
NextParameters == NextOn(Trees(NoIdentifier \cup {FnFooBarZet}), {"foo"}, {"bar"})
SpecParameters == InitParameters /\ [][NextParameters]_vars

\* C16: a function without the explicit "C" ABI (no extern, extern without a
\* name, another ABI) is skipped: the step appends nothing, leaves the registry
\* as it is and ends in no error, even when the signature has a receiver, a
\* pattern that is no identifier, an unsupported type and an unregistered type.
C16_NotCSkipped == [][\A token \in NotC : PassesOver(token)]_vars

\* a pass over two such functions has returned the text of a pass over no
\* declaration
C16_Witness ==
    /\ ReturnedOk
    /\ tokens = <<Signature(AbiNone), Signature(Abi("system"))>>
    /\ Text = Closing(Preamble.str, Preamble.indents).str

----------------------------------------------------------------------------
(* C17 *)

ReceiverError == UnsupportedError("Receiver parameters aren't supported")
PatternError == UnsupportedError("Parameters that are not identity aren't supported")

\* the pass ends on the error e, and build returns it alone
FailsWith(e) == pc' = "done" /\ result' = Some(Err(e)) /\ script' = <<>>

\* the statement as it was made: the error is the unsupported-construct error
C17_AlwaysUnsupported ==
    [][\A token \in NoIdentifier :
           AtToken(token) =>
               /\ pc' = "done" /\ is_err(unwrap(result'))
               /\ unwrap(result').err.kind = "UnsupportedError"]_vars

\* C17: lowering an extern "C" function of which a parameter is a receiver or
\* binds a pattern that is no single identifier fails the pass, and build
\* returns the error alone, without any text of the function; the error is the
\* unsupported-construct error when the return type and the types of the
\* parameters before that parameter resolve, and otherwise the error of the
\* first of them, the return type first, that does not resolve.
C17_FirstFailure ==
    [][/\ AtToken(FnReceiver) => FailsWith(ReceiverError)
       /\ AtToken(FnPattern) => FailsWith(PatternError)
       /\ AtToken(FnReceiverReturningUnknown) => FailsWith(UnknownTypeError(Nope))
       /\ AtToken(FnUnknownThenPattern) => FailsWith(UnknownTypeError(Nope))]_vars

\* a function was lowered, then the pass failed on the pattern of the next one
C17_Witness ==
    /\ ReturnedErr
    /\ tokens = <<FnFooBarZet, FnPattern>>
    /\ Error = PatternError

----------------------------------------------------------------------------
(* C18 *)

DllImport(entry) ==
    "[DllImport(\"foo\", CallingConvention = CallingConvention.Cdecl, EntryPoint=\""
        \o entry \o "\")]"

\* C18: a lowered extern "C" function has the declared name unchanged as the
\* EntryPoint, the naming transform of it (split at '_', each word's first
\* letter in upper case, the words joined) as the managed name, the same
\* transform with the first letter in lower case as each parameter's name, the
\* parameters in declared order, and its lines in the order summary block,
\* one param line per parameter, returns line, DllImport annotation,
\* declaration.
C18_NamesAndOrder ==
    [][/\ AtToken(FnFooBarZet) =>
              LowersAs(FnFooBarZet,
                       <<"/// <summary>", "/// Does it.", "/// </summary>",
                         "/// <param name=\"fooBar\">u8</param>",
                         "/// <param name=\"secondValue\">u16</param>",
                         "/// <returns>u8</returns>",
                         DllImport("foo_bar_zet"),
                         "internal static extern byte FooBarZet(byte fooBar, ushort secondValue);",
                         "">>)
       /\ AtToken(FnGetX) =>
              LowersAs(FnGetX,
                       <<"/// <param name=\"valueA\">i32</param>",
                         "/// <returns>void</returns>",
                         DllImport("_get__x"),
                         "internal static extern void GetX(int valueA);",
                         "">>)]_vars

\* both functions were lowered in one pass
C18_Witness ==
    /\ ReturnedOk
    /\ tokens = <<FnGetX, FnFooBarZet>>
    /\ HasLine(Text, "internal static extern byte FooBarZet(byte fooBar, ushort secondValue);")

----------------------------------------------------------------------------
(* C19 *)

Alias == "Alias"

\* a path of one segment with the given generic arguments
Instance(ident, args) == TypePath(<<Segment(ident, AngleBracketed(args))>>)

\* Generic, Generic<u8> and Generic<'static, u8>
GenericPlain == Named("Generic")
GenericOfByte == Generic("Generic", <<Named("u8")>>)
GenericBorrowed == Instance("Generic", <<GenericLifetime, GenericType(Named("u8"))>>)
Aliased == {GenericPlain, GenericOfByte, GenericBorrowed}

\* type Alias = ty;   (the lowerer does not look at the number of arguments)
AliasOf(ty) == ItemType(Alias, ty)

\* pub extern "C" fn foo(p: pty) -> rty
FnTakingReturning(pty, rty) ==
    ItemFn(<<>>, Abi("C"), Foo, <<Typed(PatIdent(<<"p">>), pty)>>, Some(rty))
\* pub extern "C" fn foo(p: Alias) -> ty: the alias and what it stands for
FnAliasAnd(ty) == FnTakingReturning(Named(Alias), ty)

InitAliasUse == InitOn({CSharp9}, {None})
NextAliasUse ==
    NextOn(Trees({StructGeneric} \cup {AliasOf(ty) : ty \in Aliased}
                     \cup {FnAliasAnd(ty) : ty \in Aliased}),
           {"foo"}, {"bar"})
SpecAliasUse == InitAliasUse /\ [][NextAliasUse]_vars

\* the text has foo declared with the managed type q both as the type of its
\* parameter, declared as the alias a, and as its return type
SameType(text, a, q) ==
    /\ HasLine(text, "/// <param name=\"p\">" \o a \o "</param>")
    /\ HasLine(text, "/// <returns>Generic</returns>")
    /\ HasLine(text, "internal static extern " \o q \o " Foo(" \o q \o " p);")

\* the generic arguments of an aliased type as they are written
Arguments(ty) == IF ty = GenericPlain THEN "" ELSE "<byte>"

\* a pass has returned the text of foo, which refers to the alias and to ty, the
\* alias having been lowered from ty in this pass or in an earlier one
AliasUsed(ty) ==
    /\ ReturnedOk
    /\ \/ tokens = <<AliasOf(ty), FnAliasAnd(ty)>>
       \/ /\ tokens = <<FnAliasAnd(ty)>>
          /\ known_types[Alias].real_type_name = "Generic" \o Arguments(ty)

\* the alias has the namespace and the enclosing type Generic has
SameIdentity ==
    /\ known_types[Alias].namespace = known_types["Generic"].namespace
    /\ known_types[Alias].inside_type = known_types["Generic"].inside_type

\* what holds: without a lifetime argument the alias and the type are written
\* alike as long as Generic has the identity the alias was made from
C19_WhileUnchanged ==
    \A ty \in {GenericPlain, GenericOfByte} :
        (AliasUsed(ty) /\ SameIdentity)
            => SameType(Text, Alias,
                        Qualified(known_types["Generic"], Context) \o Arguments(ty))

\* C19: once the alias A = G or A = G<args> of a registered type G is lowered, a
\* signature that refers to A has exactly the managed type, qualification and
\* generic arguments included, that a signature has which refers to G or
\* G<args> directly from the same context; the name A is in the remark only.
C19_AliasAsAliased ==
    \A ty \in Aliased :
        AliasUsed(ty) =>
            \E q \in Spellings(known_types["Generic"]) :
                SameType(Text, Alias, q \o Arguments(ty))

\* the alias of Generic<'static, u8>, used in the pass that lowered it, is
\* written with a comma before its first type argument
C19_Malformed ==
    /\ ReturnedOk
    /\ tokens = <<AliasOf(GenericBorrowed), FnAliasAnd(GenericBorrowed)>>
    /\ HasLine(Text, "internal static extern "
                         \o Qualified(known_types["Generic"], Context) \o "<byte> Foo("
                         \o Qualified(known_types["Generic"], Context) \o "<, byte> p);")

----------------------------------------------------------------------------
(* C20 *)

\* the argument lists of the aliases `type Alias = Generic<...>;`
OfByte == <<GenericType(Named("u8"))>>
OfByteAndShort == <<GenericType(Named("u8")), GenericType(Named("u16"))>>
OfPointer == <<GenericType(TypePtr(Named("u8")))>>
OfBorrowedByte == <<GenericLifetime, GenericType(Named("u8"))>>
OfPointerSized == <<GenericType(Named("usize"))>>
OfOut == <<GenericType(Generic(Out, <<Named("u8")>>))>>
OfGeneric == <<GenericType(GenericOfByte)>>

\* fixed-width primitives and pointers to them
FixedWidth == {OfByte, OfByteAndShort, OfPointer}
\* a pointer-sized integer, the out marker, a registered generic user type
Resolving == FixedWidth \cup {OfBorrowedByte, OfPointerSized, OfOut, OfGeneric}

InitArguments == InitOn({CSharp9}, {Some(Out)})
NextArguments ==
    NextOn(Trees({StructGeneric} \cup {AliasOf(Instance("Generic", args)) : args \in Resolving}),
           {"foo"}, {"bar"})
SpecArguments == InitArguments /\ [][NextArguments]_vars

\* the resolved arguments, joined by commas
Rendered(args) ==
    CASE args = OfByte -> "byte"
      [] args = OfByteAndShort -> "byte, ushort"
      [] args = OfPointer -> "IntPtr"
      [] args = OfBorrowedByte -> "byte"
      [] args = OfPointerSized -> "nuint"
      [] args = OfOut -> "out byte"
      [] args = OfGeneric -> Qualified(known_types["Generic"], Context) \o "<byte>"

\* the step on the alias of Generic<args>, Generic being registered, completes
\* and leaves Alias registered under the namespace and the enclosing type of
\* Generic with the name Generic<resolved arguments>
RegistersAlias(args) ==
    (AtToken(AliasOf(Instance("Generic", args))) /\ "Generic" \in DOMAIN known_types) =>
        /\ pc' = "building" /\ idx' = idx + 1 /\ script' = script
        /\ known_types' =
               add_known_type(known_types, Alias, known_types["Generic"].namespace,
                              known_types["Generic"].inside_type,
                              "Generic<" \o Rendered(args) \o ">")

\* what holds: arguments that are fixed-width primitives or pointers to them
C20_FixedWidthArguments == [][\A args \in FixedWidth : RegistersAlias(args)]_vars

\* C20: lowering the alias A = G<a1, ..., an> of a registered G whose arguments
\* all resolve (fixed-width primitives, pointer-sized integers, pointers, the
\* out marker, registered user types) completes and registers A under the
\* namespace and the enclosing type of G with the name G<resolved arguments,
\* joined by commas>; looking G up and resolving the arguments never conflict.
C20_AliasCompletes == [][\A args \in Resolving : RegistersAlias(args)]_vars

\* the pass panicked on the alias of Generic<usize>
C20_Conflict ==
    /\ pc = "panicked"
    /\ tokens[idx] = AliasOf(Instance("Generic", OfPointerSized))

----------------------------------------------------------------------------
(* C21 *)

\* m::Known
KnownInModule ==
    TypePath(<<Segment("m", PathArgumentsNone), Segment(Known, PathArgumentsNone)>>)

\* aliased types that are no path, or a path whose last segment is a name no
\* declaration of the catalog registers
NeverKnown ==
    <<Named(Nope), Named("u8"), TypePtr(Named(Known)), TypeReference(Named(Known)),
      TypeOther("Tuple")>>

\* mod m { type Alias = Nope; type Alias = u8; type Alias = *const Known; ... }
AliasesOfNeverKnown == Module([i \in 1..Len(NeverKnown) |-> AliasOf(NeverKnown[i])])

InitSkippedAlias == InitOn({CSharp9}, {None})
NextSkippedAlias ==
    NextOn(Trees({EnumKnown, AliasOf(KnownInModule), FnReturning(Named(Alias)),
                  AliasesOfNeverKnown}),
           {"foo"}, {"bar"})
SpecSkippedAlias == InitSkippedAlias /\ [][NextSkippedAlias]_vars

\* a reference to the alias name fails as an unknown type while the registry
\* is without it
AliasUnknown ==
    (AtToken(FnReturning(Named(Alias))) /\ Alias \notin DOMAIN known_types)
        => FailsOnUnknown(Alias)

\* the alias of m::Known as the code lowers it: passed over while Known is not
\* registered, registered with the identity of Known once it is
LastSegmentAliased ==
    IF Known \in DOMAIN known_types
    THEN Lowers(AliasOf(KnownInModule))
             => /\ script' = script /\ indent' = indent
                /\ known_types' =
                       [n \in DOMAIN known_types \cup {Alias} |->
                           IF n = Alias THEN known_types[Known] ELSE known_types[n]]
    ELSE PassesOver(AliasOf(KnownInModule))

\* C21, as the code has it: a type alias whose aliased type is not a path whose
\* last segment is a name currently in the registry is passed over without
\* output, error or registration, so that a later reference to the alias name
\* fails as an unknown type; a path of several segments whose last segment is
\* registered is aliased as that name is.
C21_SkippedUnlessLastSegmentKnown ==
    [][/\ PassesOver(AliasesOfNeverKnown)
       /\ LastSegmentAliased
       /\ AliasUnknown]_vars

\* an alias of m::Known has been lowered on a registry that holds Known, and
\* the reference after it is written
C21_Witness ==
    /\ ReturnedOk
    /\ tokens = <<AliasOf(KnownInModule), FnReturning(Named(Alias))>>
    /\ Entry(known_types, Alias) = Entry(known_types, Known)
    /\ HasLine(Text, FooReturning(Qualified(known_types[Known], Context)))

\* C21: a type alias whose aliased type is not a single-segment reference to a
\* name currently in the registry (an unregistered name, a primitive, a path of
\* several segments, a pointer, a reference or another type that is no path) is
\* passed over: no output, no error, the registry unchanged, so that a later
\* reference to the alias name fails as an unknown type.
C21_SkippedUnlessSingleSegment ==
    [][/\ PassesOver(AliasesOfNeverKnown)
       /\ PassesOver(AliasOf(KnownInModule))
       /\ AliasUnknown]_vars

----------------------------------------------------------------------------
(* C22 *)

\* extern "C" fn foo(p: Out<u8>), foo(p: Out<Known>), foo(p: Out),
\* foo(p: Out<>) and foo(p: Out<u8, u16>)
OutOfOne == FnTaking(Generic(Out, <<Named("u8")>>))
OutOfKnown == FnTaking(Generic(Out, <<Named(Known)>>))
OutBare == FnTaking(Named(Out))
OutOfNone == FnTaking(Instance(Out, <<>>))
OutOfTwo == FnTaking(Generic(Out, <<Named("u8"), Named("u16")>>))

InitOut == InitOn({CSharp9}, {Some(Out)})
NextOut ==
    NextOn(Trees({EnumKnown, OutOfOne, OutOfKnown, OutBare, OutOfNone, OutOfTwo}),
           {"foo"}, {"bar"})
SpecOut == InitOut /\ [][NextOut]_vars

OutError == UnsupportedError("Out type requires the real type to be angle bracketed.")

\* the lines of foo with its parameter p of the managed type q
FooTaking(q) ==
    <<"/// <param name=\"p\">Out</param>", "/// <returns>void</returns>",
      DllImport("foo"), "internal static extern void Foo(" \o q \o " p);", "">>

\* the marker with one argument, and without any
OneOrNone ==
    /\ AtToken(OutOfOne) => LowersAs(OutOfOne, FooTaking("out byte"))
    /\ (AtToken(OutOfKnown) /\ Known \in DOMAIN known_types)
           => LowersAs(OutOfKnown,
                       FooTaking("out " \o Qualified(known_types[Known], Context)))
    /\ AtToken(OutBare) => FailsWith(OutError)
    /\ AtToken(OutOfNone) => FailsWith(OutError)

\* what holds: one argument gives the out parameter, none gives the error
C22_OneOrNone == [][OneOrNone]_vars

\* the marker with two arguments is lowered as the marker of the last of them
C22_LastArgument ==
    /\ ReturnedOk
    /\ tokens = <<OutOfTwo>>
    /\ HasLine(Text, "internal static extern void Foo(out ushort p);")

\* C22: with the out-parameter marker M configured, a type M<X> with exactly one
\* generic argument resolves to `out ` followed by the managed name of X, with
\* the remark M; M with no generic argument or with more than one fails with an
\* unsupported-construct error.
C22_ExactlyOne ==
    [][OneOrNone /\ (AtToken(OutOfTwo) => FailsWith(OutError))]_vars

----------------------------------------------------------------------------
(* C23 *)

\* the primitive names of the table in the order foo takes them
PrimitiveNames ==
    <<"u8", "u16", "u32", "u64", "i8", "i16", "i32", "i64", "u128", "i128",
      "f32", "f64", "char", "usize", "isize">>

\* extern "C" fn foo(a: u8, b: u16, ..., n: usize, o: isize)
FnPrimitives ==
    ItemFn(<<>>, Abi("C"), Foo,
           [i \in 1..Len(PrimitiveNames) |->
               Typed(PatIdent(<<LowerAlpha[i]>>), Named(PrimitiveNames[i]))],
           None)

\* #[repr(u8)] enum ident { Val1 }
EnumNamed(ident) == ItemEnum(<<Repr("u8")>>, ident, <<Variant("Val1", <<>>, None)>>)

\* the version is any, the out marker is none or the name of a primitive, and
\* the name of a primitive is registered as the name of an enum
InitPrimitives == InitOn(Versions, {None, Some("bool")})
NextPrimitives ==
    NextOn(Trees({FnPrimitives, FnReturning(Named("bool")), FnReturning(Named("str")),
                  EnumNamed("usize")}),
           {"foo"}, {"bar"})
SpecPrimitives == InitPrimitives /\ [][NextPrimitives]_vars

\* the managed names the table documents for version v, in the order of
\* PrimitiveNames
Documented(v) ==
    <<"byte", "ushort", "uint", "ulong", "sbyte", "short", "int", "long",
      "System.Numerics.BigInteger", "System.Numerics.BigInteger",
      "float", "double", "char",
      IF v >= 9 THEN "nuint" ELSE "ulong", IF v >= 9 THEN "nint" ELSE "long">>

RECURSIVE ParameterList(_, _)
ParameterList(managed, i) ==
    IF i > Len(managed) THEN ""
    ELSE (IF i # 1 THEN ", " ELSE "") \o managed[i] \o " " \o LowerAlpha[i]
             \o ParameterList(managed, i + 1)

\* the lines of foo: each parameter's native name as its remark, each
\* parameter's managed name in the declaration
PrimitiveLines(v) ==
    [i \in 1..Len(PrimitiveNames) |->
        "/// <param name=\"" \o LowerAlpha[i] \o "\">" \o PrimitiveNames[i]
            \o "</param>"]
    \o <<"/// <returns>void</returns>", DllImport("foo"),
         "internal static extern void Foo(" \o ParameterList(Documented(v), 1) \o ");",
         "">>

BoolError == UnsupportedError("Found a boolean type. Due to differing sizes on different operating systems this is not supported for extern C functions.")
StrError == UnsupportedError("Found a str type. This is not supported, please use a char pointer instead.")

\* C23: for every primitive name of the table and every configured version v the
\* resolver gives the documented managed name, with the native name as the
\* remark: u8/u16/u32/u64 byte/ushort/uint/ulong, i8/i16/i32/i64
\* sbyte/short/int/long, u128 and i128 System.Numerics.BigInteger, f32/f64
\* float/double, char char, usize/isize nuint/nint if v >= 9 and ulong/long
\* otherwise; bool and str fail with an unsupported-construct error for every
\* version and every registry, a registered or configured name equal to a
\* primitive changing nothing.
C23_PrimitiveTable ==
    [][/\ AtToken(FnPrimitives)
              => LowersAs(FnPrimitives, PrimitiveLines(csharp_version))
       /\ AtToken(FnReturning(Named("bool"))) => FailsWith(BoolError)
       /\ AtToken(FnReturning(Named("str"))) => FailsWith(StrError)]_vars

\* the primitives were resolved below version 9 with usize registered as the
\* name of an enum and bool configured as the out marker
C23_Witness ==
    /\ ReturnedOk
    /\ tokens = <<EnumNamed("usize"), FnPrimitives>>
    /\ csharp_version < 9
    /\ out_type = Some("bool")
    /\ "usize" \in DOMAIN known_types
    /\ HasBlock(Texts(Text), PrimitiveLines(csharp_version))

----------------------------------------------------------------------------
(* C24 *)

\* *const u8, *mut Known, *const *const u16, *const bool, *const (u8, u8)
PointerToByte == TypePtr(Named("u8"))
PointerToKnown == TypePtr(Named(Known))
PointerToPointer == TypePtr(TypePtr(Named("u16")))
PointerToBool == TypePtr(Named("bool"))
PointerToTuple == TypePtr(TypeOther("Tuple"))

InitPointers == InitOn({CSharp9}, {None})
NextPointers ==
    NextOn(Trees({EnumKnown} \cup
                 {FnReturning(ty) : ty \in {PointerToByte, PointerToKnown,
                                            PointerToPointer, PointerToBool,
                                            PointerToTuple}}),
           {"foo"}, {"bar"})
SpecPointers == InitPointers /\ [][NextPointers]_vars

\* the lines of foo returning a pointer of which remark is the remark
FooReturningPointer(remark) ==
    <<"/// <returns>" \o remark \o "</returns>", DllImport("foo"),
      "internal static extern IntPtr Foo();", "">>

TupleError == UnsupportedError("Using rust tuples from ffi is not supported.")

\* C24: resolving a pointer type resolves its pointee first: if the pointee
\* resolves, the result is the managed name IntPtr, whatever the pointee, with
\* the pointee's remark followed by `*` as its remark; if the pointee does not
\* resolve (an unsupported construct, bool or str, a name not in the registry)
\* the pointer fails with the same error.
C24_PointerAfterPointee ==
    [][/\ AtToken(FnReturning(PointerToByte))
              => LowersAs(FnReturning(PointerToByte), FooReturningPointer("u8*"))
       /\ AtToken(FnReturning(PointerToPointer))
              => LowersAs(FnReturning(PointerToPointer), FooReturningPointer("u16**"))
       /\ AtToken(FnReturning(PointerToKnown))
              => IF Known \in DOMAIN known_types
                 THEN LowersAs(FnReturning(PointerToKnown),
                               FooReturningPointer("Known*"))
                 ELSE FailsWith(UnknownTypeError(Known))
       /\ AtToken(FnReturning(PointerToBool)) => FailsWith(BoolError)
       /\ AtToken(FnReturning(PointerToTuple)) => FailsWith(TupleError)]_vars

\* a pointer to a registered type was resolved, then a pointer to bool failed
C24_Witness ==
    /\ ReturnedErr
    /\ tokens = <<FnReturning(PointerToKnown), FnReturning(PointerToBool)>>
    /\ Known \in DOMAIN known_types
    /\ Error = BoolError

----------------------------------------------------------------------------
(* C25 *)

\* build_csharp, lines 82-84: the loop over the tokens, left at the first
\* failure; done is what the tokens before i have left
RECURSIVE write_tokens(_, _, _, _)
write_tokens(done, items, i, hash_order) ==
    IF i > Len(items) THEN done
    ELSE IF ~is_ok(done.r) THEN done
    ELSE write_tokens(
             write_token(done.str, items[i], done.indents, Builder, done.known,
                         hash_order),
             items, i + 1, hash_order)

\* build_csharp, were the registry emptied before the pass
build_csharp_on_empty_registry(items, known, hash_order) ==
    LET done == write_tokens(Lowered(Preamble.str, Preamble.indents, EmptyRegistry,
                                     OkUnit),
                             items, 1, hash_order)
    IN  [r |-> IF is_ok(done.r) THEN Ok(Closing(done.str, done.indents).str)
               ELSE done.r,
         known |-> done.known]

\* build_csharp as a function of the tree and the registry it starts on: the
\* Result it returns and the registry it leaves
build_csharp(items, known, hash_order) ==
    LET done == write_tokens(Lowered(Preamble.str, Preamble.indents, known, OkUnit),
                             items, 1, hash_order)
    IN  [r |-> IF is_ok(done.r) THEN Ok(Closing(done.str, done.indents).str)
               ELSE done.r,
         known |-> done.known]

\* mod m { fn foo() -> Known; enum Known }, a module around Known and it,
\* a module that fails after a registration, and `mod m;`
ModuleInner == Module(<<FnReturning(Named(Known)), EnumKnown>>)
ModuleOuter == Module(<<EnumKnown, ModuleInner>>)
ModuleFailing == Module(<<EnumKnown, FnReturning(Named("bool")), StructKnown>>)
ModuleDeclared == ItemMod(None)

InitModules == InitOn({CSharp9}, {None})
NextModules ==
    NextOn(Trees({FnReturning(Named(Known)), ModuleInner, ModuleOuter, ModuleFailing,
                  ModuleDeclared}),
           {"foo"}, {"bar"})
SpecModules == InitModules /\ [][NextModules]_vars

\* C25: module flattening is transparent: a tree in which declarations are
\* wrapped in an inline module, nested to any depth, gives the same text, the
\* same error and the same final registry as the tree with the declarations
\* written in place of the module in the same order; a module without inline
\* content contributes nothing.
C25_Transparent ==
    Returned =>
        /\ unwrap(result) = build_csharp(Flatten(tokens), begin_known_types,
                                         <<"T", "U">>).r
        /\ known_types = build_csharp(Flatten(tokens), begin_known_types,
                                      <<"T", "U">>).known

\* a pass over a module within a module has returned the text of its function
C25_Witness ==
    /\ ReturnedOk
    /\ tokens = <<ModuleDeclared, ModuleOuter>>
    /\ begin_known_types = EmptyRegistry
    /\ HasLine(Text, FooReturning(Qualified(known_types[Known], Context)))

----------------------------------------------------------------------------
(* C26 *)

\* the number of wrappers the pass opens
Wrappers ==
    (IF is_none(namespace) THEN 0 ELSE 1) + (IF is_none(type_name) THEN 0 ELSE 1)

\* every line from i on is at the depth of the braces open before it, an
\* opening brace one level out of what it opens and a closing brace at the
\* level of the brace it closes; no brace closes what was not opened, and none
\* is left open.  Empty lines carry no indentation.
RECURSIVE Braced(_, _, _)
Braced(text, i, depth) ==
    IF i > Len(text) THEN depth = 0
    ELSE IF text[i].text = "" THEN Braced(text, i + 1, depth)
    ELSE IF text[i].text = "{"
    THEN text[i].indent = depth /\ Braced(text, i + 1, depth + 1)
    ELSE IF text[i].text = "}"
    THEN depth > 0 /\ text[i].indent = depth - 1 /\ Braced(text, i + 1, depth - 1)
    ELSE text[i].indent = depth /\ Braced(text, i + 1, depth)

\* the lines the wrappers open with, after the four lines of the banner
Opened ==
    (IF is_none(namespace) THEN <<>>
     ELSE <<[indent |-> 0, text |-> "namespace " \o unwrap(namespace)],
            [indent |-> 0, text |-> "{"]>>)
    \o (IF is_none(type_name) THEN <<>>
        ELSE <<[indent |-> Wrappers - 1,
                text |-> "internal static class " \o unwrap(type_name)],
               [indent |-> Wrappers - 1, text |-> "{"]>>)

\* the lines the wrappers close with: the innermost first
Closed == [i \in 1..Wrappers |-> [indent |-> Wrappers - i, text |-> "}"]]

\* the text of a successful build: opened namespace first, closed in reverse
WrappedText ==
    ReturnedOk =>
        /\ Len(Text) >= 4 + Len(Opened) + Len(Closed)
        /\ SubSeq(Text, 5, 4 + Len(Opened)) = Opened
        /\ SubSeq(Text, Len(Text) - Wrappers + 1, Len(Text)) = Closed
        /\ Braced(Text, 1, 0)
        /\ indent = 0

\* between declarations the depth is the number of opened wrappers, and never
\* negative
DepthRestored ==
    /\ indent >= 0
    /\ pc = "building" => indent = Wrappers

\* a declaration that writes begins at the depth of the wrappers and nowhere
\* goes out of them
DeclarationAtDepth ==
    (pc = "building" /\ pc' = "building" /\ Len(script') > Len(script)) =>
        /\ script'[Len(script) + 1].indent = Wrappers
        /\ \A i \in (Len(script) + 1)..Len(script') :
               script'[i].text # "" => script'[i].indent >= Wrappers

\* C26: for each of the four combinations of namespace and wrapper type present
\* or absent, a successful build opens the namespace before the class, writes
\* every declaration at the depth equal to the number of opened wrappers,
\* restores that depth after each lowered declaration, closes the wrappers in
\* the reverse of the order it opened them and ends at depth 0: never a
\* negative depth, never a brace left open or one too many.
C26_Wrapped == []WrappedText /\ []DepthRestored /\ [][DeclarationAtDepth]_vars

\* a record and a function were written inside both wrappers
C26_Witness ==
    /\ ReturnedOk
    /\ Wrappers = 2
    /\ tokens = <<StructKnown, FnReturning(Named(Known))>>
    /\ Len(Text) > 4 + Len(Opened) + Len(Closed)
    /\ Braced(Text, 1, 0)

----------------------------------------------------------------------------
(* C27 *)

\* #[repr(C)] struct Holder { f_a: bool }: the declaration that fails
StructFailing == StructHolding(Named("bool"))

\* mod m { enum Other; type Known = Other; struct Holder { f_a: bool };
\*         struct Known }
ModuleAborted == Module(<<EnumOther, AliasKnownOfOther, StructFailing, StructKnown>>)

InitAbort == InitOn({CSharp9}, {None})
NextAbort ==
    NextOn(Trees({StructKnown, EnumOther, StructFailing, ModuleAborted}),
           {"foo"}, {"bar"})
SpecAbort == InitAbort /\ [][NextAbort]_vars

\* the registry with name registered as T
With(known, name, T) ==
    [n \in DOMAIN known \cup {name} |-> IF n = name THEN T ELSE known[n]]

\* what the declaration d registers when it is lowered on the registry known
\* in the context of the pass
RegistrationOf(known, d) ==
    IF d = StructKnown THEN With(known, Known, CSharpType(namespace, type_name, Known))
    ELSE IF d = EnumOther
    THEN With(known, Other, CSharpType(namespace, type_name, Other))
    ELSE IF d = AliasKnownOfOther /\ Other \in DOMAIN known
    THEN With(known, Known, known[Other])
    ELSE known

\* the registry after the registrations of the first n of the declarations ds
RECURSIVE RegistrationsOf(_, _, _)
RegistrationsOf(known, ds, n) ==
    IF n = 0 THEN known
    ELSE RegistrationOf(RegistrationsOf(known, ds, n - 1), ds[n])

\* the place of the declaration the pass aborts at
Aborted(ds) == CHOOSE k \in 1..Len(ds) :
                   ds[k] = StructFailing /\ \A j \in 1..(k - 1) : ds[j] # StructFailing

\* C27: a failed pass does not roll the registry back: when a pass aborts at
\* declaration k, the registry holds the registrations of every enum, record and
\* alias lowered before k in that pass, on top of what it held before, and no
\* registration of declaration k or of a later one.
C27_NoRollback ==
    ReturnedErr =>
        known_types = RegistrationsOf(begin_known_types, Flatten(tokens),
                                      Aborted(Flatten(tokens)) - 1)

\* a pass on an empty registry failed at the third declaration of a module: the
\* enum and the alias before it are registered, the record after it is not
C27_Witness ==
    /\ ReturnedErr
    /\ tokens = <<ModuleAborted>>
    /\ begin_known_types = EmptyRegistry
    /\ DOMAIN known_types = {Known, Other}
    /\ known_types[Known] = known_types[Other]

----------------------------------------------------------------------------
(* C28 *)

Node == "Node"
\* #[repr(C)] struct Node { next: *const Node }
StructNode ==
    ItemStruct(<<Repr("C")>>, Node, <<>>,
               <<Field(<<>>, Some(<<"n", "e", "x", "t">>), TypePtr(Named(Node)))>>)

\* the record, an enum of its name that registers the name before it, and a
\* reference to the name
InitSelf == InitOn({CSharp9}, {None})
NextSelf ==
    NextOn(Trees({StructNode, EnumNamed(Node), FnReturning(Named(Node))}),
           {"foo"}, {"bar"})
SpecSelf == InitSelf /\ [][NextSelf]_vars

\* C28: a record is registered only after all its fields are resolved and its
\* text is written, so while a record N is lowered N resolves only if an earlier
\* declaration or pass registered it: on a registry without N a repr(C) record
\* with a field that refers to N itself, a pointer to N, fails the pass with an
\* unknown-type error and N stays unregistered.
C28_RegisteredAfterFields ==
    [][AtToken(StructNode) =>
           IF Node \in DOMAIN known_types
           THEN /\ Lowers(StructNode)
                /\ \E i \in DOMAIN Appended :
                       Appended[i] = FieldLine("IntPtr", "Next", csharp_version)
                /\ known_types'[Node] = CSharpType(namespace, type_name, Node)
           ELSE /\ FailsWith(UnknownTypeError(Node))
                /\ known_types' = known_types]_vars

\* the pass over the record alone has failed and Node is not registered
C28_Witness ==
    /\ ReturnedErr
    /\ tokens = <<StructNode>>
    /\ Error = UnknownTypeError(Node)
    /\ Node \notin DOMAIN known_types

----------------------------------------------------------------------------
(* C29 *)

\* #[repr(C)] struct Two<T, U> { f_a: T, f_b: U }
StructTwo ==
    ItemStruct(<<Repr("C")>>, "Two", <<TypeParam("T"), TypeParam("U")>>,
               <<Field(<<>>, Some(<<"f", "_", "a">>), Named("T")),
                 Field(<<>>, Some(<<"f", "_", "b">>), Named("U"))>>)
\* extern "C" fn foo() -> Two<u8, u16>
FnReturningTwo == FnReturning(Generic("Two", <<Named("u8"), Named("u16")>>))

InitDeterminism == InitOn({CSharp9}, {None})
NextDeterminism ==
    NextOn(Trees({StructTwo, StructGeneric, FnReturningTwo}), {"foo"}, {"bar"})
SpecDeterminism == InitDeterminism /\ [][NextDeterminism]_vars

\* what the pass returned and left is what any pass over the same tree from
\* the same registry returns and leaves
SameAsAnyPass ==
    \A hash_order \in HashOrders :
        /\ unwrap(result) = build_csharp(tokens, begin_known_types, hash_order).r
        /\ known_types = build_csharp(tokens, begin_known_types, hash_order).known

\* the registry a pass leaves is what any pass from the same registry leaves
SameRegistryAsAnyPass ==
    \A hash_order \in HashOrders :
        known_types = build_csharp(tokens, begin_known_types, hash_order).known

\* what holds: the registry is determined, and so is the text of a tree without
\* a record of two type parameters
C29_UpToParameterOrder ==
    Returned =>
        /\ SameRegistryAsAnyPass
        /\ (\A i \in 1..Len(tokens) : tokens[i] # StructTwo) => SameAsAnyPass

\* a pass has returned Two with its type parameters in the other order
C29_Reordered ==
    /\ ReturnedOk
    /\ tokens = <<StructTwo>>
    /\ HasLine(Text, "public struct Two<U, T>")

\* C29: lowering is deterministic: two passes over the same tree with the same
\* context, configuration and initial registry give the same text and the same
\* final registry; in particular a repr(C) record with two or more type
\* parameters always has its generic parameter list in the order in which the
\* parameters are declared.
C29_Deterministic ==
    /\ [](Returned => SameAsAnyPass)
    /\ [][Lowers(StructTwo) =>
              \E i \in DOMAIN Appended : Appended[i] = "public struct Two<T, U>"]_vars

----------------------------------------------------------------------------
(* C30 *)

AliasOfKnown == AliasOf(Named(Known))

InitRerun == InitOn({CSharp9}, {None})
NextRerun ==
    NextOn(Trees({EnumKnown, FnReturning(Named(Known)), AliasOfKnown,
                  FnReturning(Named(Alias))}),
           {"foo"}, {"bar"})
SpecRerun == InitRerun /\ [][NextRerun]_vars

\* the names a declaration of the catalog registers, and those it refers to in
\* its signature or as the type it aliases
Registers(d) ==
    IF d = EnumKnown THEN {Known} ELSE IF d = AliasOfKnown THEN {Alias} ELSE {}
RefersTo(d) ==
    IF d \in {FnReturning(Named(Known)), AliasOfKnown} THEN {Known}
    ELSE IF d = FnReturning(Named(Alias)) THEN {Alias}
    ELSE {}

\* a declaration refers to a name that a later declaration registers
RefersAhead(ds) ==
    \E i \in 1..Len(ds) : \E j \in (i + 1)..Len(ds) :
        RefersTo(ds[i]) \cap Registers(ds[j]) # {}

\* the pass that has returned, run again unchanged on the registry it left,
\* returns the same and leaves the registry as it is
RerunSame ==
    /\ build_csharp(tokens, known_types, <<"T", "U">>).r = unwrap(result)
    /\ build_csharp(tokens, known_types, <<"T", "U">>).known = known_types

C30_SecondRunRegisters ==
    /\ ReturnedOk
    /\ tokens = <<AliasOfKnown, EnumKnown>>
    /\ Alias \notin DOMAIN known_types
    /\ Alias \in DOMAIN build_csharp(tokens, known_types, <<"T", "U">>).known

============================================================================
